---- MODULE Spec2Model ----
(***************************************************************************)
(* Model of the Chopsticks charm coordinator (charm/src/charm.py): the     *)
(* per-unit event handlers and actions, the peer application databag, the  *)
(* systemd workload services of every unit and the Juju leadership.        *)
(*                                                                         *)
(* Every hook and action is dispatched by Juju one at a time and runs to   *)
(* completion, so each handler is one atomic action.  The peer relation    *)
(* "cluster" is established by Juju before the first modelled hook runs.   *)
(* The state after Init is the state after the install hook.  (Spec)       *)
(*                                                                         *)
(* Model of the metrics daemon and its supervisor on one node              *)
(* (chopsticks/metrics/daemon.py, server_daemon.py, commands/metrics.py):  *)
(* the OS processes, the TCP port, the PID, state and socket files.  A     *)
(* supervisor command is split where the code waits, so that the daemon    *)
(* and other processes run in between.  (DaemonSpec)                       *)
(*                                                                         *)
(* Model of the inside of one serving daemon (chopsticks/metrics/          *)
(* http_server.py, ipc.py, prometheus_exporter.py): the IPC clients of the *)
(* workers and their connections, the IPC thread, the exporter's lists,    *)
(* the main thread with GET /metrics, the signal handler and the shutdown  *)
(* thread.  A step is one socket operation, one list append or one pass of *)
(* a formatter.  (ServerSpec, ServerFairSpec)                              *)
(*                                                                         *)
(* The same daemon from the registration of its signal handlers to the     *)
(* serve loop, with no worker connecting: the steps of                     *)
(* MetricsHTTPServer.start interleaved with the signal handler.            *)
(* (StartupFairSpec)                                                       *)
(*                                                                         *)
(* Model of _handle_client on one connection at the level of bytes: what   *)
(* the producer writes, what each recv returns, the decoding, the line     *)
(* buffer and the records passed on.  (HandleSpec)                         *)
(***************************************************************************)
EXTENDS Integers, Sequences, FiniteSets, TLC

\* ------------------------------------------------------------------ bounds
MaxRuns == 1
\* size of the OS pid table on the node
MaxPids == 2

\* the units of the application: one leader and one peer
Units == 1..2

\* --------------------------------------------------------------- constants
LEADER_SERVICE == "chopsticks-leader"
LEADER_WEBUI_SERVICE == "chopsticks-leader-webui"
WORKER_SERVICE == "chopsticks-worker"
Services == {LEADER_SERVICE, LEADER_WEBUI_SERVICE, WORKER_SERVICE}
LeaderServices == {LEADER_SERVICE, LEADER_WEBUI_SERVICE}

PeerKeys == {"leader_address", "leader_unit", "test_state", "test_run_id", "scenario_file"}

\* str(uuid.uuid4()): the n-th identifier the generator hands out
RunIdName == <<"uuid-1", "uuid-2", "uuid-3", "uuid-4", "uuid-5">>
RunId(n) == RunIdName[n]
\* self.unit.name
UnitNameTable == <<"chopsticks/0", "chopsticks/1", "chopsticks/2", "chopsticks/3">>
UnitName(u) == UnitNameTable[u]
\* the ingress address of the unit's binding
AddrTable == <<"10.0.0.1", "10.0.0.2", "10.0.0.3", "10.0.0.4">>
Addr(u) == AddrTable[u]
\* "%d" formatting of a peer count
NumStr == <<"0", "1", "2", "3", "4">>
IntToStr(n) == NumStr[n + 1]

\* scenario files named by the action parameter / the charm config, and the
\* ones that exist as regular files under REPO_DIR
Scenarios == {"scenarios/s3.py", "scenarios/missing.py"}
ScenarioFiles == {"scenarios/s3.py"}

VARIABLES
    leader,      \* the unit Juju currently designates leader
    bag,         \* peer relation application databag: key -> string ("" = key absent)
    svc,         \* svc[u]: the systemd services active on unit u
    config,      \* application config: [valid, autostart]
    dirs,        \* dirs[u]: run ids with a directory DATA_DIR/<id> on unit u
    nextId,      \* number of run identifiers stored so far
    event        \* the most recent step: hook/action, its unit, the status it set
                 \* and what it reported

\* The metrics daemon and its supervisor on one node (chopsticks/metrics/
\* daemon.py, server_daemon.py, commands/metrics.py)
VARIABLES
    proc,        \* proc[p]: what runs under OS pid p
    port,        \* the pids lsof lists for the configured TCP port
    pidFile,     \* the PID file: [exists, text] and who created it
    stateFile,   \* the state file exists
    socketFile,  \* the IPC socket file exists
    sup,         \* the supervisor command in progress
    dstep        \* the most recent step of daemon, supervisor or environment

dvars == <<proc, port, pidFile, stateFile, socketFile, sup, dstep>>

cvars == <<leader, bag, svc, config, dirs, nextId, event>>

\* The inside of one serving daemon (chopsticks/metrics/http_server.py,
\* ipc.py, prometheus_exporter.py) and the IPC clients of the workers
VARIABLES
    client,      \* the MetricsIPCClient of every worker, and what became of its records
    conn,        \* the connections made to the IPC socket so far
    ipcsrv,      \* MetricsIPCServer and the thread that runs _ipc_loop
    metrics,     \* PrometheusExporter.metrics: family -> list of (value, labels)
    httpsrv,     \* the main thread: serve loop, GET /metrics in progress,
                 \* signal handler and shutdown thread
    sstep        \* the step just taken, when it was a send_metric: client, metric, outcome

svars == <<client, conn, ipcsrv, metrics, httpsrv, sstep>>

\* One connection to the IPC socket, byte by byte (ipc.py, _handle_client)
VARIABLES
    hc           \* the bytes of the connection and the state of its handler

vars == <<cvars, dvars, svars, hc>>

\* ------------------------------------------------------ python value model
\* Action parameters and config options are python values: None, int, float
\* (n is the value in tenths) or str.
PyNone == [k |-> "none", s |-> "", n |-> 0]
PyInt(i) == [k |-> "int", s |-> "", n |-> i * 10]
PyFloat(tenths) == [k |-> "float", s |-> "", n |-> tenths]
PyStr(str) == [k |-> "str", s |-> str, n |-> 0]

\* decimal integer literals accepted by int(str), with their value
IntLiterals == ("0" :> 0) @@ ("2" :> 2) @@ ("-1" :> -1)
\* literals accepted by float(str), value in tenths
FloatLiterals == ("0" :> 0) @@ ("2" :> 20) @@ ("-1" :> -10) @@ ("0.5" :> 5)

\* python truthiness, as used by `a or b`
Truthy(v) ==
    CASE v.k = "none" -> FALSE
      [] v.k = "int" -> v.n # 0
      [] v.k = "float" -> v.n # 0
      [] v.k = "str" -> v.s # ""

PyOr(a, b) == IF Truthy(a) THEN a ELSE b

\* truncation toward zero of tenths to an integer
TruncTenths(t) == IF t >= 0 THEN t \div 10 ELSE -((-t) \div 10)

\* int(v): ok = FALSE stands for TypeError / ValueError
PyIntOf(v) ==
    CASE v.k = "none" -> [ok |-> FALSE, val |-> 0]
      [] v.k = "int" -> [ok |-> TRUE, val |-> v.n \div 10]
      [] v.k = "float" -> [ok |-> TRUE, val |-> TruncTenths(v.n)]
      [] v.k = "str" -> IF v.s \in DOMAIN IntLiterals
                          THEN [ok |-> TRUE, val |-> IntLiterals[v.s]]
                          ELSE [ok |-> FALSE, val |-> 0]

\* float(v), value in tenths
PyFloatOf(v) ==
    CASE v.k = "none" -> [ok |-> FALSE, val |-> 0]
      [] v.k = "int" -> [ok |-> TRUE, val |-> v.n]
      [] v.k = "float" -> [ok |-> TRUE, val |-> v.n]
      [] v.k = "str" -> IF v.s \in DOMAIN FloatLiterals
                          THEN [ok |-> TRUE, val |-> FloatLiterals[v.s]]
                          ELSE [ok |-> FALSE, val |-> 0]

\* values an operator can pass as the users / spawn-rate action parameters
UsersParams == {PyNone, PyInt(0), PyInt(-1), PyStr("abc")}
SpawnParams == {PyNone, PyInt(-1)}
\* values of the locust-users / locust-spawn-rate config options
ConfigOptions == {[users |-> PyNone, spawn_rate |-> PyNone],
                  [users |-> PyInt(3), spawn_rate |-> PyFloat(10)]}

\* --------------------------------------------------- framework and helpers
\* self.unit.is_leader()
is_leader(u) == leader = u

\* _get_peer_data: rel.data[self.app].get(key, default)
GetPeerData(b, key, default) == IF b[key] = "" THEN default ELSE b[key]

\* _set_peer_data without the leadership check
SetPeerData_unguarded(u, b, key, value) == [b EXCEPT ![key] = value]

\* _set_peer_data: the databag after unit u sets key (leader only)
SetPeerData(u, b, key, value) ==
    IF ~is_leader(u) THEN b ELSE [b EXCEPT ![key] = value]

\* _is_config_valid
IsConfigValid == config.valid

\* _get_private_ip: what the call can return on unit u, the ingress address
\* of its network binding or "" while the binding reports none
GetPrivateIp(u) == {Addr(u), ""}

\* _publish_leader_address that publishes the address without the unit id
PublishLeaderAddress_address_only(u, b, leader_ip) ==
    IF ~is_leader(u) THEN b
    ELSE IF leader_ip # ""
         THEN SetPeerData(u, b, "leader_address", leader_ip)
         ELSE b

\* _publish_leader_address, leader_ip being what _get_private_ip returned
PublishLeaderAddress(u, b, leader_ip) ==
    IF ~is_leader(u) THEN b
    ELSE IF leader_ip # ""
         THEN SetPeerData(u, SetPeerData(u, b, "leader_address", leader_ip),
                          "leader_unit", UnitName(u))
         ELSE b

\* _is_service_running, _stop_service, _start_service (successful) on the
\* set S of services active on the unit
IsServiceRunning(S, service) == service \in S
StopService(S, service) == S \ {service}
StartService(S, service) == S \cup {service}

\* _stop_all_services that forgets the worker service
StopAllServices_leaders_only(S) == StopService(StopService(S, LEADER_SERVICE), LEADER_WEBUI_SERVICE)

\* _stop_all_services
StopAllServices(S) ==
    StopService(StopService(StopService(S, LEADER_SERVICE), LEADER_WEBUI_SERVICE),
                WORKER_SERVICE)

\* _count_peer_units: len(rel.units), the peers excluding this unit
CountPeerUnits == Cardinality(Units) - 1

\* ops.BlockedStatus / ActiveStatus / WaitingStatus; the message is kept as
\* the sequence of the pieces the f-string joins
Status(name, message) == [name |-> name, message |-> message]
\* the handler did not assign self.unit.status
NoStatus == Status("", <<>>)

\* _set_ready_status that presents every worker with a leader address as "ready"
ReadyStatus_worker_always_ready(u, b, S) ==
    IF ~IsConfigValid THEN Status("blocked", <<"Missing S3 configuration">>)
    ELSE LET test_state == GetPeerData(b, "test_state", "idle") IN
         IF is_leader(u)
         THEN Status("active", <<"Leader ready (", IntToStr(CountPeerUnits),
                                 " workers, test: ", test_state, ")">>)
         ELSE LET leader_address == GetPeerData(b, "leader_address", "") IN
              IF leader_address # ""
              THEN Status("active", <<"Worker ", "ready", " -> ", leader_address>>)
              ELSE Status("waiting", <<"Waiting for leader address">>)

\* _set_ready_status: the status unit u presents given databag b and its services S
ReadyStatus(u, b, S) ==
    IF ~IsConfigValid THEN Status("blocked", <<"Missing S3 configuration">>)
    ELSE LET test_state == GetPeerData(b, "test_state", "idle") IN
         IF is_leader(u)
         THEN Status("active", <<"Leader ready (", IntToStr(CountPeerUnits),
                                 " workers, test: ", test_state, ")">>)
         ELSE LET leader_address == GetPeerData(b, "leader_address", "") IN
              IF leader_address # ""
              THEN Status("active",
                          <<"Worker ",
                            IF IsServiceRunning(S, WORKER_SERVICE) THEN "connected" ELSE "ready",
                            " -> ", leader_address>>)
              ELSE Status("waiting", <<"Waiting for leader address">>)

\* _maybe_start_worker without the is_leader guard
MaybeStartWorker_no_leader_check(u, b, S, started) ==
    IF IsServiceRunning(S, WORKER_SERVICE) THEN [svc |-> S, host |-> "", raised |-> FALSE]
    ELSE IF ~IsConfigValid THEN [svc |-> S, host |-> "", raised |-> FALSE]
    ELSE LET leader_address == GetPeerData(b, "leader_address", "") IN
         IF leader_address = "" THEN [svc |-> S, host |-> "", raised |-> FALSE]
         ELSE IF started
              THEN [svc |-> StartService(S, WORKER_SERVICE), host |-> leader_address,
                    raised |-> FALSE]
              ELSE [svc |-> S, host |-> leader_address, raised |-> TRUE]

\* _maybe_start_worker without the _is_config_valid guard
MaybeStartWorker_no_config_check(u, b, S, started) ==
    IF is_leader(u) THEN [svc |-> S, host |-> "", raised |-> FALSE]
    ELSE IF IsServiceRunning(S, WORKER_SERVICE) THEN [svc |-> S, host |-> "", raised |-> FALSE]
    ELSE LET leader_address == GetPeerData(b, "leader_address", "") IN
         IF leader_address = "" THEN [svc |-> S, host |-> "", raised |-> FALSE]
         ELSE IF started
              THEN [svc |-> StartService(S, WORKER_SERVICE), host |-> leader_address,
                    raised |-> FALSE]
              ELSE [svc |-> S, host |-> leader_address, raised |-> TRUE]

\* _maybe_start_worker: [svc, host, raised] after the call, host being the
\* --master-host rendered into the worker unit file ("" when none was
\* rendered); started = FALSE stands for systemctl failing
\* (CalledProcessError) after the unit file was rendered
MaybeStartWorker(u, b, S, started) ==
    IF is_leader(u) THEN [svc |-> S, host |-> "", raised |-> FALSE]
    ELSE IF IsServiceRunning(S, WORKER_SERVICE) THEN [svc |-> S, host |-> "", raised |-> FALSE]
    ELSE IF ~IsConfigValid THEN [svc |-> S, host |-> "", raised |-> FALSE]
    ELSE LET leader_address == GetPeerData(b, "leader_address", "") IN
         IF leader_address = "" THEN [svc |-> S, host |-> "", raised |-> FALSE]
         ELSE IF started
              THEN [svc |-> StartService(S, WORKER_SERVICE), host |-> leader_address,
                    raised |-> FALSE]
              ELSE [svc |-> S, host |-> leader_address, raised |-> TRUE]

\* ------------------------------------------------------------ step records
\* What the most recent step was: the hook or action, the unit, the status
\* the handler assigned to self.unit.status, and what an action reported:
\* event.fail(msg) gives ok = FALSE and the message (a sequence of words),
\* event.set_results gives the result fields.  previous_state is the
\* test_state a lifecycle handler read from the databag before acting on it,
\* leader_ip what _get_private_ip returned to _publish_leader_address.
Ev(op, u, st) ==
    [op |-> op, unit |-> u, status |-> st, ok |-> TRUE, msg |-> <<>>,
     test_state |-> "", test_run_id |-> "", is_leader |-> FALSE,
     leader_running |-> FALSE, worker_running |-> FALSE,
     worker_host |-> "", previous_state |-> "", leader_ip |-> ""]

\* a step of the environment (Juju, the operator, systemd)
EnvStep == Ev("env", 0, NoStatus)

Failed(op, u, msg) == [Ev(op, u, NoStatus) EXCEPT !.ok = FALSE, !.msg = msg]

\* substring test on messages, word by word
Contains(msg, words) ==
    \E i \in 1..(Len(msg) - Len(words) + 1) :
        \A j \in 1..Len(words) : msg[i + j - 1] = words[j]

\* --------------------------------------------- metrics daemon: the node
\* the OS pids; a pid is handed out again once its process is gone
Pids == 1..MaxPids

\* str(os.getpid()) and int(text): the decimal text of a pid
PidText == <<"1", "2", "3", "4">>
StrOfPid(p) == PidText[p]
\* int(self.pid_file.read_text()): ok = FALSE stands for ValueError
IntOfText(text) ==
    IF \E n \in DOMAIN PidText : PidText[n] = text
    THEN [ok |-> TRUE, val |-> CHOOSE n \in DOMAIN PidText : PidText[n] = text]
    ELSE [ok |-> FALSE, val |-> 0]

\* What runs under a pid.  A daemon (python -m chopsticks.metrics.server_daemon)
\* is "spawned" until it creates its PID file, "writing" while the file is
\* created but still empty, "written" until its servers are bound, "serving"
\* while it serves, "stopping" once shutdown was requested or the bind
\* failed.  "foreign" is a process of the same user that is no daemon,
\* "foreign-other-user" one of another user.
DaemonPhases == {"spawned", "writing", "written", "serving", "stopping"}
ForeignKinds == {"foreign", "foreign-other-user"}

\* os.kill(pid, 0): "ok", "ESRCH" (ProcessLookupError) or "EPERM" (PermissionError)
Kill0(pr, pid) ==
    IF pid \notin DOMAIN pr \/ pr[pid] = "none" THEN "ESRCH"
    ELSE IF pr[pid] = "foreign-other-user" THEN "EPERM"
    ELSE "ok"

\* _is_chopsticks_process: /proc/<pid>/cmdline names the daemon module
IsChopsticksProcess(pr, pid) == pid \in DOMAIN pr /\ pr[pid] \in DaemonPhases

\* The PID file.  writer and stale are bookkeeping: the pid of the process
\* that created the file, and whether that process has died without
\* running its cleanup.
PidFileOf(text, writer) == [exists |-> TRUE, text |-> text, writer |-> writer, stale |-> FALSE]
AbsentFile == [exists |-> FALSE, text |-> "", writer |-> 0, stale |-> FALSE]

\* the PID file after the process under pid p died without cleanup
Orphaned(pf, p) ==
    IF pf.exists /\ pf.writer = p THEN [pf EXCEPT !.stale = TRUE] ELSE pf

\* what a process is after SIGTERM: a serving daemon runs its handler and
\* shuts down; a daemon that has not installed the handler yet, and a
\* foreign process, die of the default action
AfterSigterm(kind) ==
    CASE kind \in {"serving", "stopping"} -> "stopping"
      [] kind \in {"spawned", "writing", "written", "foreign"} -> "none"
      [] OTHER -> kind

\* the supervisor: no command in progress
Idle == [pc |-> "idle", cmd |-> "none", force |-> FALSE, target |-> 0]

\* The most recent step: who took it, the command, the pids it sent SIGTERM
\* to, what is_running answered ("" when not asked) and the outcome.
DStep(actor, op) == [actor |-> actor, op |-> op, sent |-> {}, running |-> "", result |-> ""]
Quiet == DStep("none", "")

\* no daemon, no supervisor command, no control file
NoDaemon ==
    /\ proc = [p \in Pids |-> "none"]
    /\ port = {}
    /\ pidFile = AbsentFile
    /\ stateFile = FALSE
    /\ socketFile = FALSE
    /\ sup = Idle
    /\ dstep = Quiet

\* ------------------------------------ metrics server: clients and exporter
\* number of send_metric calls, of connections to the IPC socket and of
\* GET /metrics requests in one run
MaxRecords == 3
MaxConns == 2
MaxRenders == 2

\* the workers, each with one MetricsIPCClient
Clients == 1..2

\* the keys of PrometheusExporter.metrics, in the order add_operation_metric
\* appends to them and export renders them
Families == <<"operation_duration_seconds", "operation_size_bytes",
              "operation_throughput_mbps", "operation_total">>
\* the histogram buckets of export(); durations are kept in milliseconds
\* (the exporter divides duration_ms by 1000 and compares with seconds)
DurationBuckets == <<10, 50, 100, 500, 1000, 2000, 5000, 10000>>
SizeBuckets == <<1024, 10240, 102400, 1048576, 10485760, 104857600, 1073741824>>

\* the measurements of the n-th metric handed to send_metric
DurationMsTable == <<5, 200, 20000, 50, 700>>
SizeBytesTable == <<1024, 4096, 2097152, 512, 10240>>
ThroughputTable == <<7, 3, 9, 1, 4>>

\* The OperationMetric worker c hands to its n-th send_metric: worker 1
\* uploads successfully, worker 2 fails downloads.
MetricOf(c, n) ==
    [operation_type |-> IF c = 1 THEN "upload" ELSE "download",
     workload_type |-> "s3",
     driver |-> "s3",
     success |-> (c = 1),
     duration_ms |-> DurationMsTable[n],
     object_size_bytes |-> SizeBytesTable[n],
     throughput_mbps |-> ThroughputTable[n]]

\* str(metric.success).lower()
StrLower(b) == IF b THEN "true" ELSE "false"

\* the labels dict of add_operation_metric
LabelsOf(metric) ==
    [operation |-> metric.operation_type, workload |-> metric.workload_type,
     driver |-> metric.driver, success |-> StrLower(metric.success)]

\* _format_labels: the k="v" pairs in the order of the sorted keys
FormatLabels(labels) ==
    <<"driver", labels.driver, "operation", labels.operation,
      "success", labels.success, "workload", labels.workload>>

\* the (value, labels) tuple add_operation_metric appends to the i-th family
Sample(metric, i) ==
    [v |-> CASE i = 1 -> metric.duration_ms
             [] i = 2 -> metric.object_size_bytes
             [] i = 3 -> metric.throughput_mbps
             [] i = 4 -> 1,
     l |-> LabelsOf(metric)]

RECURSIVE SumSeq(_)
SumSeq(s) == IF s = <<>> THEN 0 ELSE Head(s) + SumSeq(Tail(s))

\* the label strings that occur in a list of samples
LabelStrs(values) == {FormatLabels(values[i].l) : i \in DOMAIN values}

\* the values of the samples with label string label_str, in list order
ValuesOf(values, label_str) ==
    LET sel == SelectSeq(values, LAMBDA s : FormatLabels(s.l) = label_str)
    IN [i \in 1..Len(sel) |-> sel[i].v]

\* "Group by labels" of _format_histogram
GroupByLabels(values) == [label_str \in LabelStrs(values) |-> ValuesOf(values, label_str)]

\* _format_histogram whose bucket lines count the observations between the
\* previous bound and their own
FormatHistogram_per_bucket(buckets, by_labels) ==
    [label_str \in DOMAIN by_labels |->
        LET vals == by_labels[label_str] IN
        [bucket |-> [b \in DOMAIN buckets |->
                        Cardinality({i \in DOMAIN vals :
                                        /\ vals[i] <= buckets[b]
                                        /\ b > 1 => vals[i] > buckets[b - 1]})],
         inf |-> Len(vals),
         sum |-> SumSeq(vals),
         count |-> Len(vals)]]

\* the lines _format_histogram emits for every label set: the bucket
\* counts, the +Inf bucket, _sum and _count
FormatHistogram(buckets, by_labels) ==
    [label_str \in DOMAIN by_labels |->
        LET vals == by_labels[label_str] IN
        [bucket |-> [b \in DOMAIN buckets |->
                        Cardinality({i \in DOMAIN vals : vals[i] <= buckets[b]})],
         inf |-> Len(vals),
         sum |-> SumSeq(vals),
         count |-> Len(vals)]]

\* _format_gauge: the most recent value of every label set
FormatGauge(values) ==
    [label_str \in LabelStrs(values) |->
        LET vals == ValuesOf(values, label_str) IN vals[Len(vals)]]

\* _format_counter that reports the most recent value like a gauge
FormatCounter_last_value(values) ==
    [label_str \in LabelStrs(values) |->
        LET vals == ValuesOf(values, label_str) IN vals[Len(vals)]]

\* _format_counter: the sum of the values of every label set
FormatCounter(values) ==
    [label_str \in LabelStrs(values) |-> SumSeq(ValuesOf(values, label_str))]

\* The exceptions send_metric catches: BrokenPipeError, ConnectionResetError
\* and OSError with its subclasses
OSErrors == {"OSError", "BrokenPipeError", "ConnectionResetError",
             "ConnectionRefusedError", "FileNotFoundError", "TimeoutError"}
CaughtBySendMetric(exc) ==
    exc \in {"BrokenPipeError", "ConnectionResetError"} \/ exc \in OSErrors

\* A connection to the IPC socket.  state is the server side: "queued" in
\* the listen backlog, "accepted" while _handle_client runs on it, "closed"
\* once the server closed it, "reset" when it was dropped with the listening
\* socket or the process; buf holds what the client sent and the server has
\* not read.
NewConn == [state |-> "queued", buf |-> <<>>]

\* the connections the server side has not finished with
Dropped(cs) ==
    [k \in DOMAIN cs |->
        IF cs[k].state \in {"queued", "accepted"}
        THEN [cs[k] EXCEPT !.state = "reset", !.buf = <<>>] ELSE cs[k]]

\* what sendall on a connection raises ("" when it succeeds)
SendallError(c0) ==
    CASE c0.state = "closed" -> "BrokenPipeError"
      [] c0.state = "reset" -> "ConnectionResetError"
      [] OTHER -> ""

\* the IPC server and its thread at rest
IpcPoll == [running |-> TRUE, listening |-> TRUE, pc |-> "poll", cur |-> 0,
            i |-> 0, metric |-> <<>>, received |-> {}, added |-> 0]
IpcGone == [IpcPoll EXCEPT !.running = FALSE, !.listening = FALSE, !.pc = "exited"]

\* the exporter with nothing recorded
NoMetrics == [f \in {Families[i] : i \in DOMAIN Families} |-> <<>>]

\* the lines list of export() before anything is rendered: one entry per
\* family
NoLines == [i \in 1..3 |-> <<>>]

\* the main thread in serve_forever, nothing rendered yet: out holds the
\* lines of the families rendered so far by the export() in progress, total
\* the operation_total values of the last response written
Serving == [pc |-> "serve", fam |-> 0, stage |-> "", by_labels |-> <<>>,
            out |-> NoLines, total |-> <<>>, renders |-> 0,
            hnd |-> "none", sth |-> "none", shutdown_request |-> FALSE]

\* no process: no main thread
NoHttp == [Serving EXCEPT !.pc = "exited"]

NoClients == [sock |-> [c \in Clients |-> 0], sent |-> 0, discarded |-> {}]

\* the most recent send_metric
SStep(c, metric) == [op |-> "send", client |-> c, metric |-> metric, ok |-> TRUE,
                     raised |-> FALSE, connect |-> "", error |-> ""]
NoSend == [op |-> "", client |-> 0, metric |-> <<>>, ok |-> TRUE,
           raised |-> FALSE, connect |-> "", error |-> ""]

\* ---------------------------- metrics server: one connection, byte by byte
\* number of lines the producer of the connection writes
MaxFrames == 3

\* A byte on the socket: the ASCII characters "{", "}", " ", "\n", "a", "b"
\* and "k", the two bytes "C3" "A9" that encode one non-ASCII character in
\* UTF-8, and "FF", which occurs in no UTF-8 text.
\* json.dumps(metric.to_dict()) + "\n" for a metric whose JSON text has the
\* body given; MetricsIPCClient writes ASCII only (json.dumps escapes), the
\* protocol admits any UTF-8.
LineOf(body) == <<"{">> \o body \o <<"}", "\n">>

\* the lines a producer writes: three well-formed records (the third with
\* a non-ASCII character in a string), a line that is no JSON, a JSON object
\* that lacks the fields of a metric ("k"), a blank line and a line that is
\* no UTF-8
Frames == {LineOf(<<"a">>), LineOf(<<"b">>), LineOf(<<"C3", "A9">>),
           <<"{", "a", "\n">>, LineOf(<<"k">>), <<" ", "\n">>, <<"FF", "\n">>}

\* data.decode("utf-8") of one recv: ok = FALSE stands for UnicodeDecodeError
\* (a byte of no UTF-8 text, or a character cut by the end of the data)
RECURSIVE DecodeUtf8(_)
DecodeUtf8(data) ==
    IF data = <<>> THEN [ok |-> TRUE, text |-> <<>>]
    ELSE IF Head(data) = "C3"
    THEN IF Len(data) >= 2 /\ data[2] = "A9"
         THEN LET r == DecodeUtf8(SubSeq(data, 3, Len(data)))
              IN [ok |-> r.ok, text |-> IF r.ok THEN <<"e-acute">> \o r.text ELSE <<>>]
         ELSE [ok |-> FALSE, text |-> <<>>]
    ELSE IF Head(data) \in {"A9", "FF"} THEN [ok |-> FALSE, text |-> <<>>]
    ELSE LET r == DecodeUtf8(Tail(data))
         IN [ok |-> r.ok, text |-> IF r.ok THEN <<Head(data)>> \o r.text ELSE <<>>]

\* line.strip()
Strip(line) ==
    LET idx == {i \in DOMAIN line : line[i] # " "}
    IN IF idx = {} THEN <<>>
       ELSE SubSeq(line, CHOOSE i \in idx : \A j \in idx : i <= j,
                         CHOOSE i \in idx : \A j \in idx : i >= j)

\* _process_metric: json.loads and _on_metric_received on a stripped line;
\* the record handed to add_operation_metric, or "" when json.loads or the
\* reconstruction raised and the error was logged
ProcessMetric(json_str) ==
    IF /\ Len(json_str) = 3
       /\ json_str[1] = "{"
       /\ json_str[3] = "}"
       /\ json_str[2] \in {"a", "b", "e-acute"}
    THEN json_str[2]
    ELSE ""

\* buffer.split("\n", 1): the line before the first newline and the rest
SplitLine(buffer) ==
    LET n == CHOOSE i \in DOMAIN buffer :
                 buffer[i] = "\n" /\ \A j \in 1..(i - 1) : buffer[j] # "\n"
    IN [line |-> SubSeq(buffer, 1, n - 1), rest |-> SubSeq(buffer, n + 1, Len(buffer))]

\* The connection: what its producer has written and whether it has closed,
\* how many of the bytes recv has returned, and _handle_client: its buffer,
\* where it is ("recv", "lines" inside the inner loop, "closed" after
\* conn.close()), how the read loop ended ("eof", "timeout" or "error") and
\* the records it has passed to add_operation_metric, in order.
Stream(written) ==
    [written |-> written, frames |-> 0, eof |-> FALSE, rpos |-> 0,
     buffer |-> <<>>, pc |-> "recv", how |-> "", ingested |-> <<>>]

\* no metrics server under observation
NoServer ==
    /\ client = NoClients
    /\ conn = <<>>
    /\ ipcsrv = IpcGone
    /\ metrics = NoMetrics
    /\ httpsrv = NoHttp
    /\ sstep = NoSend
    /\ hc = Stream(<<>>)

\* -------------------------------------------------------------------- Init
Init ==
    /\ leader \in Units
    /\ bag = [k \in PeerKeys |-> ""]
    /\ svc = [u \in Units |-> {}]
    /\ config = [valid |-> FALSE, autostart |-> FALSE]
    /\ dirs = [u \in Units |-> {}]
    /\ nextId = 0
    /\ event = EnvStep
    /\ NoDaemon
    /\ NoServer

\* ------------------------------------------------------ environment steps
\* Juju moves the leadership to another unit
LeaderChange(u) ==
    /\ u # leader
    /\ leader' = u
    /\ event' = EnvStep
    /\ UNCHANGED <<hc, dvars, svars, bag, svc, config, dirs, nextId>>

\* the operator changes the application config
ConfigSet(valid, autostart) ==
    /\ config # [valid |-> valid, autostart |-> autostart]
    /\ config' = [valid |-> valid, autostart |-> autostart]
    /\ event' = EnvStep
    /\ UNCHANGED <<hc, dvars, svars, leader, bag, svc, dirs, nextId>>

\* a workload process exits on its own (run time over, crash)
ServiceExit(u, service) ==
    /\ service \in svc[u]
    /\ svc' = [svc EXCEPT ![u] = @ \ {service}]
    /\ event' = EnvStep
    /\ UNCHANGED <<hc, dvars, svars, leader, bag, config, dirs, nextId>>

\* ------------------------------------------------- lifecycle event handlers
\* _on_start
OnStart(u) ==
    /\ event' = Ev("start", u, ReadyStatus(u, bag, svc[u]))
    /\ UNCHANGED <<hc, dvars, svars, leader, bag, svc, config, dirs, nextId>>

\* _on_update_status that only recomputes the status
OnUpdateStatus_no_check(u) ==
    /\ event' = [Ev("update-status", u, ReadyStatus(u, bag, svc[u])) EXCEPT
                    !.previous_state = IF is_leader(u)
                                       THEN GetPeerData(bag, "test_state", "idle")
                                       ELSE ""]
    /\ UNCHANGED <<hc, dvars, svars, leader, bag, svc, config, dirs, nextId>>

\* _on_update_status
OnUpdateStatus(u) ==
    LET b1 == IF /\ is_leader(u)
                 /\ GetPeerData(bag, "test_state", "idle") = "running"
                 /\ ~IsServiceRunning(svc[u], LEADER_SERVICE)
              THEN SetPeerData(u, bag, "test_state", "failed")
              ELSE bag
    IN /\ bag' = b1
       /\ event' = [Ev("update-status", u, ReadyStatus(u, b1, svc[u])) EXCEPT
                       !.previous_state = IF is_leader(u)
                                          THEN GetPeerData(bag, "test_state", "idle")
                                          ELSE ""]
       /\ UNCHANGED <<hc, dvars, svars, leader, svc, config, dirs, nextId>>

\* _on_leader_elected that resets the state to idle whatever it was
OnLeaderElected_always_idle(u) ==
    /\ is_leader(u)
    /\ \E leader_ip \in GetPrivateIp(u) :
       LET S1 == StopAllServices(svc[u])
           b1 == PublishLeaderAddress(u, bag, leader_ip)
           b2 == SetPeerData(u, b1, "test_state", "idle")
       IN /\ svc' = [svc EXCEPT ![u] = S1]
          /\ bag' = b2
          /\ event' = [Ev("leader-elected", u, ReadyStatus(u, b2, S1)) EXCEPT
                          !.previous_state = GetPeerData(b1, "test_state", "idle"),
                          !.leader_ip = leader_ip]
    /\ UNCHANGED <<hc, dvars, svars, leader, config, dirs, nextId>>

\* _on_leader_elected that also forgets the last run
OnLeaderElected_forgets_run(u) ==
    /\ is_leader(u)
    /\ \E leader_ip \in GetPrivateIp(u) :
       LET S1 == StopAllServices(svc[u])
           b1 == PublishLeaderAddress(u, bag, leader_ip)
           previous_state == GetPeerData(b1, "test_state", "idle")
           b2 == IF previous_state = "running"
                 THEN SetPeerData(u, b1, "test_state", "failed")
                 ELSE SetPeerData(u, b1, "test_state", "idle")
           b3 == SetPeerData(u, SetPeerData(u, b2, "test_run_id", ""), "scenario_file", "")
       IN /\ svc' = [svc EXCEPT ![u] = S1]
          /\ bag' = b3
          /\ event' = [Ev("leader-elected", u, ReadyStatus(u, b3, S1)) EXCEPT
                          !.previous_state = previous_state,
                          !.leader_ip = leader_ip]
    /\ UNCHANGED <<hc, dvars, svars, leader, config, dirs, nextId>>

\* _on_leader_elected; Juju delivers leader-elected to the elected leader only
OnLeaderElected(u) ==
    /\ is_leader(u)
    /\ \E leader_ip \in GetPrivateIp(u) :
       LET S1 == StopAllServices(svc[u])
           b1 == PublishLeaderAddress(u, bag, leader_ip)
           previous_state == GetPeerData(b1, "test_state", "idle")
           b2 == IF previous_state = "running"
                 THEN SetPeerData(u, b1, "test_state", "failed")
                 ELSE SetPeerData(u, b1, "test_state", "idle")
       IN /\ svc' = [svc EXCEPT ![u] = S1]
          /\ bag' = b2
          /\ event' = [Ev("leader-elected", u, ReadyStatus(u, b2, S1)) EXCEPT
                          !.previous_state = previous_state,
                          !.leader_ip = leader_ip]
    /\ UNCHANGED <<hc, dvars, svars, leader, config, dirs, nextId>>

\* _on_cluster_changed that leaves a running worker alone
OnClusterChanged_keeps_worker(u) ==
    IF is_leader(u)
    THEN \E leader_ip \in GetPrivateIp(u) :
         LET b1 == PublishLeaderAddress(u, bag, leader_ip) IN
         /\ bag' = b1
         /\ event' = [Ev("cluster-changed", u, ReadyStatus(u, b1, svc[u])) EXCEPT
                         !.leader_ip = leader_ip]
         /\ UNCHANGED <<hc, dvars, svars, leader, svc, config, dirs, nextId>>
    ELSE \E started \in BOOLEAN :
         LET new_leader == GetPeerData(bag, "leader_address", "")
             S1 == svc[u]
             r == IF config.autostart /\ new_leader # ""
                  THEN MaybeStartWorker(u, bag, S1, started)
                  ELSE [svc |-> S1, host |-> "", raised |-> FALSE]
         IN /\ (~started => r.raised)
            /\ svc' = [svc EXCEPT ![u] = r.svc]
            /\ event' = IF r.raised
                        THEN [Ev("cluster-changed", u, NoStatus) EXCEPT
                                 !.ok = FALSE, !.worker_host = r.host]
                        ELSE [Ev("cluster-changed", u, ReadyStatus(u, bag, r.svc)) EXCEPT
                                 !.worker_host = r.host]
            /\ UNCHANGED <<hc, dvars, svars, leader, bag, config, dirs, nextId>>

\* _on_cluster_changed (cluster-relation-joined / -changed / -departed).
\* started = FALSE: systemctl start of the worker fails and the exception
\* leaves the hook before the status is recomputed.
OnClusterChanged(u) ==
    IF is_leader(u)
    THEN \E leader_ip \in GetPrivateIp(u) :
         LET b1 == PublishLeaderAddress(u, bag, leader_ip) IN
         /\ bag' = b1
         /\ event' = [Ev("cluster-changed", u, ReadyStatus(u, b1, svc[u])) EXCEPT
                         !.leader_ip = leader_ip]
         /\ UNCHANGED <<hc, dvars, svars, leader, svc, config, dirs, nextId>>
    ELSE \E started \in BOOLEAN :
         LET new_leader == GetPeerData(bag, "leader_address", "")
             S1 == IF IsServiceRunning(svc[u], WORKER_SERVICE)
                   THEN StopService(svc[u], WORKER_SERVICE)
                   ELSE svc[u]
             r == IF config.autostart /\ new_leader # ""
                  THEN MaybeStartWorker(u, bag, S1, started)
                  ELSE [svc |-> S1, host |-> "", raised |-> FALSE]
         IN /\ (~started => r.raised)
            /\ svc' = [svc EXCEPT ![u] = r.svc]
            /\ event' = IF r.raised
                        THEN [Ev("cluster-changed", u, NoStatus) EXCEPT
                                 !.ok = FALSE, !.worker_host = r.host]
                        ELSE [Ev("cluster-changed", u, ReadyStatus(u, bag, r.svc)) EXCEPT
                                 !.worker_host = r.host]
            /\ UNCHANGED <<hc, dvars, svars, leader, bag, config, dirs, nextId>>

\* _on_config_changed.  The first disjunct: _update_repo, _render_s3_config
\* or _update_systemd_units raises; started = FALSE: starting the worker
\* raises.  Every exception is caught and reported as a blocked "Config
\* error" status.
OnConfigChanged(u) ==
    \/ /\ event' = Ev("config-changed", u, Status("blocked", <<"Config error: ">>))
       /\ UNCHANGED <<hc, dvars, svars, leader, bag, svc, config, dirs, nextId>>
    \/ \E started \in BOOLEAN, leader_ip \in (IF is_leader(u) THEN GetPrivateIp(u) ELSE {""}) :
       LET b1 == IF is_leader(u) THEN PublishLeaderAddress(u, bag, leader_ip) ELSE bag
           r == IF IsConfigValid /\ ~is_leader(u) /\ config.autostart
                THEN MaybeStartWorker(u, b1, svc[u], started)
                ELSE [svc |-> svc[u], host |-> "", raised |-> FALSE]
       IN /\ (~started => r.raised)
          /\ bag' = b1
          /\ svc' = [svc EXCEPT ![u] = r.svc]
          /\ event' = [Ev("config-changed", u,
                          IF ~IsConfigValid
                          THEN Status("blocked", <<"Missing S3 configuration">>)
                          ELSE IF r.raised
                          THEN Status("blocked", <<"Config error: ">>)
                          ELSE ReadyStatus(u, b1, r.svc))
                       EXCEPT !.worker_host = r.host, !.leader_ip = leader_ip]
          /\ UNCHANGED <<hc, dvars, svars, leader, config, dirs, nextId>>

\* ---------------------------------------------------------------- actions
\* LaunchRun that publishes test_state but not the new test_run_id
LaunchRun_id_not_published(u, users, spawn_rate, scenario, headless, started) ==
    LET test_run_id == RunId(nextId + 1)
        S1 == StopService(StopService(svc[u], LEADER_SERVICE), LEADER_WEBUI_SERVICE)
    IN /\ nextId < MaxRuns
       /\ nextId' = nextId + 1
       /\ dirs' = [dirs EXCEPT ![u] = @ \cup {test_run_id}]
       /\ IF started
          THEN /\ svc' = [svc EXCEPT ![u] =
                             StartService(S1, IF headless THEN LEADER_SERVICE
                                              ELSE LEADER_WEBUI_SERVICE)]
               /\ bag' = SetPeerData(u, SetPeerData(u, bag, "test_state", "running"),
                                     "scenario_file", scenario)
               /\ event' = [Ev("start-test", u, NoStatus) EXCEPT
                               !.test_run_id = test_run_id]
          ELSE /\ svc' = [svc EXCEPT ![u] = S1]
               /\ bag' = SetPeerData(u, bag, "test_state", "failed")
               /\ event' = Failed("start-test", u, <<"Failed", "to", "start", "test:">>)
       /\ UNCHANGED <<hc, dvars, svars, leader, config>>

\* Steps 3-6 of a start-test that passed every guard: stop the leader
\* services, start the chosen variant, publish the run.  started = FALSE:
\* rendering or starting the leader service raises CalledProcessError.
LaunchRun(u, users, spawn_rate, scenario, headless, started) ==
    LET test_run_id == RunId(nextId + 1)
        S1 == StopService(StopService(svc[u], LEADER_SERVICE), LEADER_WEBUI_SERVICE)
    IN /\ nextId < MaxRuns
       /\ nextId' = nextId + 1
       /\ dirs' = [dirs EXCEPT ![u] = @ \cup {test_run_id}]
       /\ IF started
          THEN /\ svc' = [svc EXCEPT ![u] =
                             StartService(S1, IF headless THEN LEADER_SERVICE
                                              ELSE LEADER_WEBUI_SERVICE)]
               /\ bag' = SetPeerData(u,
                            SetPeerData(u,
                               SetPeerData(u, bag, "test_state", "running"),
                               "test_run_id", test_run_id),
                            "scenario_file", scenario)
               /\ event' = [Ev("start-test", u, NoStatus) EXCEPT
                               !.test_run_id = test_run_id]
          ELSE /\ svc' = [svc EXCEPT ![u] = S1]
               /\ bag' = SetPeerData(u, bag, "test_state", "failed")
               /\ event' = Failed("start-test", u, <<"Failed", "to", "start", "test:">>)
       /\ UNCHANGED <<hc, dvars, svars, leader, config>>

\* A start-test that passed every guard and then leaves the handler by an
\* exception other than CalledProcessError, which is the only one the handler
\* catches: at = 4, writing the unit file raises OSError before the service
\* is started; at = 5, the first databag write raises ModelError after the
\* service was started.  Juju reports the action as failed.
LaunchRunRaises(u, headless, at) ==
    LET test_run_id == RunId(nextId + 1)
        S1 == StopService(StopService(svc[u], LEADER_SERVICE), LEADER_WEBUI_SERVICE)
    IN /\ nextId < MaxRuns
       /\ nextId' = nextId + 1
       /\ dirs' = [dirs EXCEPT ![u] = @ \cup {test_run_id}]
       /\ svc' = [svc EXCEPT ![u] =
                     IF at = 4 THEN S1
                     ELSE StartService(S1, IF headless THEN LEADER_SERVICE
                                           ELSE LEADER_WEBUI_SERVICE)]
       /\ event' = Failed("start-test", u, <<>>)
       /\ UNCHANGED <<hc, dvars, svars, leader, bag, config>>

\* _on_start_test_action that launches the run without looking for the
\* scenario file
CheckScenario_no_check(u, users, spawn_rate, scenario) ==
    \E headless \in BOOLEAN, started \in BOOLEAN :
       LaunchRun(u, users, spawn_rate, scenario, headless, started)

\* The scenario guard of _on_start_test_action and what follows it
CheckScenario(u, users, spawn_rate, scenario) ==
    IF scenario \notin ScenarioFiles
    THEN /\ event' = Failed("start-test", u,
                            <<"Scenario", "file", "not", "found:", scenario>>)
         /\ UNCHANGED <<hc, dvars, svars, leader, bag, svc, config, dirs, nextId>>
    ELSE \/ \E headless \in BOOLEAN, started \in BOOLEAN :
              LaunchRun(u, users, spawn_rate, scenario, headless, started)
         \/ \E headless \in BOOLEAN, at \in {4, 5} :
              LaunchRunRaises(u, headless, at)

\* The parameter guard of _on_start_test_action and what follows it.
\* users_p, spawn_p: the action parameters; cfg: the locust-users and
\* locust-spawn-rate config options.
StartTestRun(u, users_p, spawn_p, cfg) ==
    LET users == PyIntOf(PyOr(users_p, cfg.users))
        spawn_rate == PyFloatOf(PyOr(spawn_p, cfg.spawn_rate))
    IN IF ~users.ok \/ ~spawn_rate.ok
       THEN /\ event' = Failed("start-test", u,
                               <<"Invalid", "users", "or", "spawn-rate;", "must", "be", "numeric">>)
            /\ UNCHANGED <<hc, dvars, svars, leader, bag, svc, config, dirs, nextId>>
       ELSE \E scenario \in Scenarios :
               CheckScenario(u, users.val, spawn_rate.val, scenario)

\* _on_start_test_action without the "already running" guard
OnStartTest_no_running_guard(u) ==
    IF ~is_leader(u)
    THEN /\ event' = Failed("start-test", u,
                            <<"start-test", "must", "be", "run", "on", "the", "leader", "unit">>)
         /\ UNCHANGED <<hc, dvars, svars, leader, bag, svc, config, dirs, nextId>>
    ELSE IF ~IsConfigValid
    THEN /\ event' = Failed("start-test", u, <<"S3", "configuration", "is", "incomplete">>)
         /\ UNCHANGED <<hc, dvars, svars, leader, bag, svc, config, dirs, nextId>>
    ELSE \E users_p \in UsersParams, spawn_p \in SpawnParams, cfg \in ConfigOptions :
            StartTestRun(u, users_p, spawn_p, cfg)

\* _on_start_test_action
OnStartTest(u) ==
    IF ~is_leader(u)
    THEN /\ event' = Failed("start-test", u,
                            <<"start-test", "must", "be", "run", "on", "the", "leader", "unit">>)
         /\ UNCHANGED <<hc, dvars, svars, leader, bag, svc, config, dirs, nextId>>
    ELSE IF ~IsConfigValid
    THEN /\ event' = Failed("start-test", u, <<"S3", "configuration", "is", "incomplete">>)
         /\ UNCHANGED <<hc, dvars, svars, leader, bag, svc, config, dirs, nextId>>
    ELSE IF GetPeerData(bag, "test_state", "idle") = "running"
    THEN /\ event' = Failed("start-test", u, <<"A", "test", "is", "already", "running">>)
         /\ UNCHANGED <<hc, dvars, svars, leader, bag, svc, config, dirs, nextId>>
    ELSE \E users_p \in UsersParams, spawn_p \in SpawnParams, cfg \in ConfigOptions :
            StartTestRun(u, users_p, spawn_p, cfg)

\* _on_stop_test_action without the leader check
OnStopTest_no_leader_check(u) ==
    LET test_run_id == GetPeerData(bag, "test_run_id", "unknown") IN
    /\ svc' = [svc EXCEPT ![u] =
                  StopService(StopService(@, LEADER_SERVICE), LEADER_WEBUI_SERVICE)]
    /\ bag' = SetPeerData(u, bag, "test_state", "stopped")
    /\ event' = [Ev("stop-test", u, NoStatus) EXCEPT !.test_run_id = test_run_id]
    /\ UNCHANGED <<hc, dvars, svars, leader, config, dirs, nextId>>

\* _on_stop_test_action that stops the headless leader service only
OnStopTest_headless_only(u) ==
    IF ~is_leader(u)
    THEN /\ event' = Failed("stop-test", u,
                            <<"stop-test", "must", "be", "run", "on", "the", "leader", "unit">>)
         /\ UNCHANGED <<hc, dvars, svars, leader, bag, svc, config, dirs, nextId>>
    ELSE LET test_run_id == GetPeerData(bag, "test_run_id", "unknown") IN
         /\ svc' = [svc EXCEPT ![u] = StopService(@, LEADER_SERVICE)]
         /\ bag' = SetPeerData(u, bag, "test_state", "stopped")
         /\ event' = [Ev("stop-test", u, NoStatus) EXCEPT !.test_run_id = test_run_id]
         /\ UNCHANGED <<hc, dvars, svars, leader, config, dirs, nextId>>

\* _on_stop_test_action
OnStopTest(u) ==
    IF ~is_leader(u)
    THEN /\ event' = Failed("stop-test", u,
                            <<"stop-test", "must", "be", "run", "on", "the", "leader", "unit">>)
         /\ UNCHANGED <<hc, dvars, svars, leader, bag, svc, config, dirs, nextId>>
    ELSE LET test_run_id == GetPeerData(bag, "test_run_id", "unknown") IN
         /\ svc' = [svc EXCEPT ![u] =
                       StopService(StopService(@, LEADER_SERVICE), LEADER_WEBUI_SERVICE)]
         /\ bag' = SetPeerData(u, bag, "test_state", "stopped")
         /\ event' = [Ev("stop-test", u, NoStatus) EXCEPT !.test_run_id = test_run_id]
         /\ UNCHANGED <<hc, dvars, svars, leader, config, dirs, nextId>>

\* _on_test_status_action
OnTestStatus(u) ==
    /\ event' = [Ev("test-status", u, NoStatus) EXCEPT
                    !.test_state = GetPeerData(bag, "test_state", "idle"),
                    !.test_run_id = GetPeerData(bag, "test_run_id", ""),
                    !.is_leader = is_leader(u),
                    !.leader_running = IsServiceRunning(svc[u], LEADER_SERVICE)
                                       \/ IsServiceRunning(svc[u], LEADER_WEBUI_SERVICE),
                    !.worker_running = IsServiceRunning(svc[u], WORKER_SERVICE)]
    /\ UNCHANGED <<hc, dvars, svars, leader, bag, svc, config, dirs, nextId>>

\* _on_fetch_metrics_action
OnFetchMetrics(u) ==
    /\ event' =
         IF ~is_leader(u)
         THEN Failed("fetch-metrics", u,
                     <<"fetch-metrics", "must", "be", "run", "on", "the", "leader", "unit">>)
         ELSE LET test_run_id == GetPeerData(bag, "test_run_id", "") IN
              IF test_run_id = ""
              THEN Failed("fetch-metrics", u, <<"No", "test", "run", "found">>)
              ELSE IF test_run_id \notin dirs[u]
              THEN Failed("fetch-metrics", u, <<"Metrics", "directory", "not", "found:", test_run_id>>)
              ELSE [Ev("fetch-metrics", u, NoStatus) EXCEPT
                       !.test_run_id = test_run_id,
                       !.test_state = GetPeerData(bag, "test_state", "idle")]
    /\ UNCHANGED <<hc, dvars, svars, leader, bag, svc, config, dirs, nextId>>

\* ------------------------------------------------------------ specification
Next ==
    \/ \E u \in Units : LeaderChange(u)
    \/ \E valid \in BOOLEAN, autostart \in BOOLEAN : ConfigSet(valid, autostart)
    \/ \E u \in Units, service \in Services : ServiceExit(u, service)
    \/ \E u \in Units : OnStart(u)
    \/ \E u \in Units : OnUpdateStatus(u)
    \/ \E u \in Units : OnLeaderElected(u)
    \/ \E u \in Units : OnClusterChanged(u)
    \/ \E u \in Units : OnConfigChanged(u)
    \/ \E u \in Units : OnStartTest(u)
    \/ \E u \in Units : OnStopTest(u)
    \/ \E u \in Units : OnTestStatus(u)
    \/ \E u \in Units : OnFetchMetrics(u)

Spec == Init /\ [][Next]_vars

TypeOK ==
    /\ leader \in Units
    /\ \A k \in PeerKeys : bag[k] \in STRING
    /\ \A u \in Units : svc[u] \subseteq Services
    /\ nextId \in 0..MaxRuns


\* ------------------------------------------- metrics daemon: operations
\* is_running that answers without touching a stale PID file
IsRunning_keeps_stale_file(pf, pr) ==
    IF ~pf.exists THEN [running |-> FALSE, pidFile |-> pf]
    ELSE LET pid == IntOfText(pf.text) IN
         [running |-> pid.ok /\ Kill0(pr, pid.val) = "ok", pidFile |-> pf]

\* MetricsDaemon.is_running: the answer and the PID file it leaves
IsRunning(pf, pr) ==
    IF ~pf.exists THEN [running |-> FALSE, pidFile |-> pf]
    ELSE LET pid == IntOfText(pf.text) IN
         IF pid.ok /\ Kill0(pr, pid.val) = "ok"
         THEN [running |-> TRUE, pidFile |-> pf]
         ELSE [running |-> FALSE, pidFile |-> AbsentFile]

\* the node after os.kill(pid, signal.SIGTERM) for every pid of S
ProcAfter(pr, S) == [q \in DOMAIN pr |-> IF q \in S THEN AfterSigterm(pr[q]) ELSE pr[q]]
PortAfter(pr, po, S) == po \ {q \in S : AfterSigterm(pr[q]) = "none"}
\* signal_handler -> server.stop() -> MetricsIPCServer.stop unlinks the socket
SocketAfter(pr, so, S) == IF \E q \in S : pr[q] = "serving" THEN FALSE ELSE so
PidFileAfter(pr, pf, S) ==
    IF pf.exists /\ pf.writer \in S /\ pr[pf.writer] \in {"writing", "written"}
    THEN Orphaned(pf, pf.writer) ELSE pf

\* cleanup_stale_files that signals every pid lsof lists
CleanupStaleFiles_signal_all(pf, sf, so, pr, po, lsof_works) ==
    LET pid == IntOfText(pf.text)
        keep == pf.exists /\ pid.ok /\ Kill0(pr, pid.val) = "ok"
                /\ IsChopsticksProcess(pr, pid.val)
    IN IF keep
       THEN [pidFile |-> pf, stateFile |-> sf, socketFile |-> so, sent |-> {}]
       ELSE [pidFile |-> AbsentFile, stateFile |-> FALSE, socketFile |-> FALSE,
             sent |-> IF lsof_works THEN po ELSE {}]

\* cleanup_stale_files that takes any live process the PID file names for
\* the daemon
CleanupStaleFiles_no_ownership_check(pf, sf, so, pr, po, lsof_works) ==
    LET pid == IntOfText(pf.text)
        keep == pf.exists /\ pid.ok /\ Kill0(pr, pid.val) = "ok"
    IN IF keep
       THEN [pidFile |-> pf, stateFile |-> sf, socketFile |-> so, sent |-> {}]
       ELSE [pidFile |-> AbsentFile, stateFile |-> FALSE, socketFile |-> FALSE,
             sent |-> IF lsof_works
                      THEN {q \in po : IsChopsticksProcess(pr, q)}
                      ELSE {}]

\* MetricsDaemon.cleanup_stale_files: the control files it leaves and the
\* pids it sends SIGTERM to.  lsof_works = FALSE: lsof is missing or times out.
CleanupStaleFiles(pf, sf, so, pr, po, lsof_works) ==
    LET pid == IntOfText(pf.text)
        keep == pf.exists /\ pid.ok /\ Kill0(pr, pid.val) = "ok"
                /\ IsChopsticksProcess(pr, pid.val)
    IN IF keep
       THEN [pidFile |-> pf, stateFile |-> sf, socketFile |-> so, sent |-> {}]
       ELSE [pidFile |-> AbsentFile, stateFile |-> FALSE, socketFile |-> FALSE,
             sent |-> IF lsof_works
                      THEN {q \in po : IsChopsticksProcess(pr, q)}
                      ELSE {}]

\* ------------------------------------------------ metrics daemon: daemon
\* server_daemon.main opens the PID file for writing
DaemonCreatePidFile(p) ==
    /\ proc[p] = "spawned"
    /\ proc' = [proc EXCEPT ![p] = "writing"]
    /\ pidFile' = PidFileOf("", p)
    /\ dstep' = Quiet
    /\ UNCHANGED <<hc, cvars, svars, port, stateFile, socketFile, sup>>

\* ... and writes str(os.getpid()) into it; the text goes nowhere when the
\* file was unlinked in between
DaemonWritePid(p) ==
    /\ proc[p] = "writing"
    /\ proc' = [proc EXCEPT ![p] = "written"]
    /\ pidFile' = IF pidFile.exists THEN PidFileOf(StrOfPid(p), p) ELSE pidFile
    /\ dstep' = Quiet
    /\ UNCHANGED <<hc, cvars, svars, port, stateFile, socketFile, sup>>

\* server.start(): bind the IPC socket, then the HTTP port.  bound = FALSE:
\* the port is taken, HTTPServer raises and main goes on to its cleanup.
DaemonServe(p, bound) ==
    /\ proc[p] = "written"
    /\ bound => ~\E q \in port : proc[q] = "serving"
    /\ ~bound => port # {}
    /\ proc' = [proc EXCEPT ![p] = IF bound THEN "serving" ELSE "stopping"]
    /\ port' = IF bound THEN port \cup {p} ELSE port
    /\ socketFile' = TRUE
    /\ dstep' = Quiet
    /\ UNCHANGED <<hc, cvars, svars, pidFile, stateFile, sup>>

\* cleanup() that leaves the PID file behind
DaemonExit_keeps_pid_file(p) ==
    /\ proc[p] = "stopping"
    /\ proc' = [proc EXCEPT ![p] = "none"]
    /\ port' = port \ {p}
    /\ stateFile' = FALSE
    /\ dstep' = Quiet
    /\ UNCHANGED <<hc, cvars, svars, pidFile, socketFile, sup>>

\* the finally block of main: cleanup() removes the PID and state files,
\* the process exits
DaemonExit(p) ==
    /\ proc[p] = "stopping"
    /\ proc' = [proc EXCEPT ![p] = "none"]
    /\ port' = port \ {p}
    /\ pidFile' = AbsentFile
    /\ stateFile' = FALSE
    /\ dstep' = Quiet
    /\ UNCHANGED <<hc, cvars, svars, socketFile, sup>>

\* the daemon is killed (SIGKILL, OOM, power loss): no cleanup runs
DaemonCrash(p) ==
    /\ proc[p] \in DaemonPhases
    /\ proc' = [proc EXCEPT ![p] = "none"]
    /\ port' = port \ {p}
    /\ pidFile' = Orphaned(pidFile, p)
    /\ dstep' = Quiet
    /\ UNCHANGED <<hc, cvars, svars, stateFile, socketFile, sup>>

\* another program starts under a free pid, possibly with a socket on the port
ForeignStart(p, kind, uses_port) ==
    /\ proc[p] = "none"
    /\ proc' = [proc EXCEPT ![p] = kind]
    /\ port' = IF uses_port THEN port \cup {p} ELSE port
    /\ dstep' = Quiet
    /\ UNCHANGED <<hc, cvars, svars, pidFile, stateFile, socketFile, sup>>

ForeignExit(p) ==
    /\ proc[p] \in ForeignKinds
    /\ proc' = [proc EXCEPT ![p] = "none"]
    /\ port' = port \ {p}
    /\ dstep' = Quiet
    /\ UNCHANGED <<hc, cvars, svars, pidFile, stateFile, socketFile, sup>>

\* -------------------------------------------- metrics daemon: supervisor
\* MetricsDaemon.stop up to its waits: SIGTERM to the pid the PID file names
SendStop(cmd, force) ==
    LET pid == IntOfText(pidFile.text).val IN
    /\ proc' = ProcAfter(proc, {pid})
    /\ port' = PortAfter(proc, port, {pid})
    /\ socketFile' = SocketAfter(proc, socketFile, {pid})
    /\ pidFile' = PidFileAfter(proc, pidFile, {pid})
    /\ sup' = [pc |-> "stop_wait", cmd |-> cmd, force |-> force, target |-> pid]
    /\ dstep' = [DStep("supervisor", cmd) EXCEPT !.sent = {pid}, !.running = "yes"]
    /\ UNCHANGED stateFile

\* cmd_metrics_start from "Clean up stale files if --force" on, over the
\* control files pf, sf, so: cleanup_stale_files when forced, then
\* MetricsDaemon.start up to its wait for the PID file
SpawnDaemon(pf, sf, so, force, lsof_works) ==
    LET c == IF force THEN CleanupStaleFiles(pf, sf, so, proc, port, lsof_works)
             ELSE [pidFile |-> pf, stateFile |-> sf, socketFile |-> so, sent |-> {}]
        pr1 == ProcAfter(proc, c.sent)
        r == IsRunning(PidFileAfter(proc, c.pidFile, c.sent), pr1)
    IN /\ port' = PortAfter(proc, port, c.sent)
       /\ socketFile' = SocketAfter(proc, c.socketFile, c.sent)
       /\ stateFile' = c.stateFile
       /\ pidFile' = r.pidFile
       /\ IF r.running \/ ~\E p \in Pids : pr1[p] = "none"
          THEN \* "Metrics server already running", or Popen fails
               /\ proc' = pr1
               /\ sup' = Idle
               /\ dstep' = [DStep("supervisor", "start") EXCEPT
                               !.sent = c.sent, !.result = "error"]
          ELSE \E p \in Pids :
               /\ pr1[p] = "none"
               /\ proc' = [pr1 EXCEPT ![p] = "spawned"]
               /\ sup' = [pc |-> "start_wait", cmd |-> "start", force |-> force, target |-> 0]
               /\ dstep' = [DStep("supervisor", "start") EXCEPT
                               !.sent = c.sent, !.running = "no"]

\* chopsticks metrics status, and any direct call of is_running
CmdStatus ==
    /\ sup.pc = "idle"
    /\ LET r == IsRunning(pidFile, proc) IN
       /\ pidFile' = r.pidFile
       /\ dstep' = [DStep("supervisor", "status") EXCEPT
                       !.running = IF r.running THEN "yes" ELSE "no",
                       !.result = IF r.running THEN "running"
                                  ELSE IF pidFile.exists THEN "stale"
                                  ELSE "not running"]
    /\ UNCHANGED <<hc, cvars, svars, proc, port, stateFile, socketFile, sup>>

\* chopsticks metrics stop, up to the waits of MetricsDaemon.stop
CmdStop ==
    /\ sup.pc = "idle"
    /\ LET r == IsRunning(pidFile, proc) IN
       IF r.running
       THEN SendStop("stop", FALSE)
       ELSE /\ pidFile' = r.pidFile
            /\ dstep' = [DStep("supervisor", "stop") EXCEPT
                            !.running = "no", !.result = "not running"]
            /\ UNCHANGED <<proc, port, stateFile, socketFile, sup>>
    /\ UNCHANGED <<hc, cvars, svars>>

\* cmd_metrics_start that goes on to MetricsDaemon.start although a daemon
\* is running and --force is not set
CmdStart_no_warning(force, lsof_works) ==
    /\ sup.pc = "idle"
    /\ LET r == IsRunning(pidFile, proc) IN
       IF r.running /\ force THEN SendStop("start", TRUE)
       ELSE SpawnDaemon(r.pidFile, stateFile, socketFile, force, lsof_works)
    /\ UNCHANGED <<hc, cvars, svars>>

\* chopsticks metrics start [--force], up to the first wait
CmdStart(force, lsof_works) ==
    /\ sup.pc = "idle"
    /\ LET r == IsRunning(pidFile, proc) IN
       IF r.running /\ force THEN SendStop("start", TRUE)
       ELSE IF r.running
       THEN /\ dstep' = [DStep("supervisor", "start") EXCEPT
                            !.running = "yes", !.result = "already running"]
            /\ UNCHANGED <<proc, port, pidFile, stateFile, socketFile, sup>>
       ELSE SpawnDaemon(r.pidFile, stateFile, socketFile, force, lsof_works)
    /\ UNCHANGED <<hc, cvars, svars>>

\* MetricsDaemon.stop that returns after its waits without unlinking anything
StopWaitDone_keeps_files(lsof_works) ==
    /\ sup.pc = "stop_wait"
    /\ IF sup.cmd = "stop"
       THEN /\ sup' = Idle
            /\ dstep' = [DStep("supervisor", "stop") EXCEPT !.result = "stopped"]
            /\ UNCHANGED <<proc, port, pidFile, stateFile, socketFile>>
       ELSE SpawnDaemon(AbsentFile, FALSE, socketFile, sup.force, lsof_works)
    /\ UNCHANGED <<hc, cvars, svars>>

\* The rest of MetricsDaemon.stop once its waits are over, the process gone
\* or not: the PID and state files are unlinked; after start --force the
\* command goes on to clean up and spawn.
StopWaitDone(lsof_works) ==
    /\ sup.pc = "stop_wait"
    /\ IF sup.cmd = "stop"
       THEN /\ pidFile' = AbsentFile
            /\ stateFile' = FALSE
            /\ sup' = Idle
            /\ dstep' = [DStep("supervisor", "stop") EXCEPT !.result = "stopped"]
            /\ UNCHANGED <<proc, port, socketFile>>
       ELSE SpawnDaemon(AbsentFile, FALSE, socketFile, sup.force, lsof_works)
    /\ UNCHANGED <<hc, cvars, svars>>

\* The rest of MetricsDaemon.start once its wait for the PID file is over
StartWaitDone ==
    /\ sup.pc = "start_wait"
    /\ LET r == IsRunning(pidFile, proc) IN
       /\ pidFile' = r.pidFile
       /\ dstep' = [DStep("supervisor", "start") EXCEPT
                       !.running = IF ~pidFile.exists THEN ""
                                   ELSE IF r.running THEN "yes" ELSE "no",
                       !.result = IF r.running THEN "started" ELSE "error"]
    /\ sup' = Idle
    /\ UNCHANGED <<hc, cvars, svars, proc, port, stateFile, socketFile>>

\* a direct call of MetricsDaemon.cleanup_stale_files
Cleanup(lsof_works) ==
    /\ sup.pc = "idle"
    /\ LET c == CleanupStaleFiles(pidFile, stateFile, socketFile, proc, port, lsof_works) IN
       /\ proc' = ProcAfter(proc, c.sent)
       /\ port' = PortAfter(proc, port, c.sent)
       /\ socketFile' = SocketAfter(proc, c.socketFile, c.sent)
       /\ stateFile' = c.stateFile
       /\ pidFile' = PidFileAfter(proc, c.pidFile, c.sent)
       /\ dstep' = [DStep("supervisor", "cleanup") EXCEPT !.sent = c.sent, !.result = "ok"]
    /\ UNCHANGED <<hc, cvars, svars, sup>>

\* ------------------------------------- metrics daemon: specification
\* control files may be left over from an earlier installation
DaemonInit ==
    /\ leader = 1
    /\ bag = [k \in PeerKeys |-> ""]
    /\ svc = [u \in Units |-> {}]
    /\ config = [valid |-> FALSE, autostart |-> FALSE]
    /\ dirs = [u \in Units |-> {}]
    /\ nextId = 0
    /\ event = EnvStep
    /\ proc = [p \in Pids |-> "none"]
    /\ port = {}
    /\ pidFile = AbsentFile
    /\ stateFile \in BOOLEAN
    /\ socketFile \in BOOLEAN
    /\ sup = Idle
    /\ dstep = Quiet
    /\ NoServer

DaemonNext ==
    \/ \E p \in Pids : DaemonCreatePidFile(p)
    \/ \E p \in Pids : DaemonWritePid(p)
    \/ \E p \in Pids, bound \in BOOLEAN : DaemonServe(p, bound)
    \/ \E p \in Pids : DaemonExit(p)
    \/ \E p \in Pids : DaemonCrash(p)
    \/ \E p \in Pids, kind \in ForeignKinds, uses_port \in BOOLEAN : ForeignStart(p, kind, uses_port)
    \/ \E p \in Pids : ForeignExit(p)
    \/ CmdStatus
    \/ CmdStop
    \/ \E force \in BOOLEAN, lsof_works \in BOOLEAN : CmdStart(force, lsof_works)
    \/ \E lsof_works \in BOOLEAN : StopWaitDone(lsof_works)
    \/ StartWaitDone
    \/ \E lsof_works \in BOOLEAN : Cleanup(lsof_works)

DaemonSpec == DaemonInit /\ [][DaemonNext]_vars

DaemonTypeOK ==
    /\ \A p \in Pids : proc[p] \in DaemonPhases \cup ForeignKinds \cup {"none"}
    /\ port \subseteq {p \in Pids : proc[p] # "none"}
    /\ pidFile.exists \in BOOLEAN
    /\ sup.pc \in {"idle", "stop_wait", "start_wait"}
    /\ dstep.sent \subseteq Pids

\* --------------------------------------------- metrics server: IPC clients
\* the daemon process under observation
ServerPid == 1
ServerAlive == proc[ServerPid] \in {"serving", "stopping"}

\* MetricsIPCClient.connect, called with no socket: what it answers
\* ("connected", "no-path" when the socket file does not exist, or the
\* exception socket.connect raises), all of which leave connect() quietly
ConnectOutcome ==
    IF ~socketFile THEN "no-path"
    ELSE IF ~ipcsrv.listening THEN "ConnectionRefusedError"
    ELSE "connected"

\* send_metric that keeps its socket after a failed sendall
SendMetric_keeps_socket(c) ==
    LET metric == MetricOf(c, client.sent + 1)
        how == IF client.sock[c] = 0 THEN ConnectOutcome ELSE ""
        cs == IF how = "connected" THEN Append(conn, NewConn) ELSE conn
        k == IF how = "connected" THEN Len(cs) ELSE client.sock[c]
        exc == IF k = 0 THEN "" ELSE SendallError(cs[k])
        ok == k # 0 /\ exc = ""
    IN /\ client.sent < MaxRecords
       /\ how = "connected" => Len(conn) < MaxConns
       /\ conn' = IF ok THEN [cs EXCEPT ![k].buf = Append(@, metric)] ELSE cs
       /\ client' = [client EXCEPT
                        !.sock[c] = k,
                        !.sent = @ + 1,
                        !.discarded = IF ok THEN @ ELSE @ \cup {metric}]
       /\ sstep' = [SStep(c, metric) EXCEPT
                       !.ok = ok, !.connect = how, !.error = exc,
                       !.raised = \/ exc # "" /\ ~CaughtBySendMetric(exc)
                                  \/ how \notin {"", "connected", "no-path"} /\ how \notin OSErrors]
       /\ UNCHANGED <<hc, cvars, dvars, ipcsrv, metrics, httpsrv>>

\* MetricsIPCClient.send_metric of worker c: connect when there is no
\* socket, then sendall; on an exception the socket is forgotten and the
\* metric is gone
SendMetric(c) ==
    LET metric == MetricOf(c, client.sent + 1)
        how == IF client.sock[c] = 0 THEN ConnectOutcome ELSE ""
        cs == IF how = "connected" THEN Append(conn, NewConn) ELSE conn
        k == IF how = "connected" THEN Len(cs) ELSE client.sock[c]
        exc == IF k = 0 THEN "" ELSE SendallError(cs[k])
        ok == k # 0 /\ exc = ""
    IN /\ client.sent < MaxRecords
       /\ how = "connected" => Len(conn) < MaxConns
       /\ conn' = IF ok THEN [cs EXCEPT ![k].buf = Append(@, metric)] ELSE cs
       /\ client' = [client EXCEPT
                        !.sock[c] = IF ok THEN k ELSE 0,
                        !.sent = @ + 1,
                        !.discarded = IF ok THEN @ ELSE @ \cup {metric}]
       /\ sstep' = [SStep(c, metric) EXCEPT
                       !.ok = ok, !.connect = how, !.error = exc,
                       !.raised = \/ exc # "" /\ ~CaughtBySendMetric(exc)
                                  \/ how \notin {"", "connected", "no-path"} /\ how \notin OSErrors]
       /\ UNCHANGED <<hc, cvars, dvars, ipcsrv, metrics, httpsrv>>

\* ------------------------------------------ metrics server: the IPC thread
\* accept_connections: accept the oldest connection of the backlog and call
\* _handle_client on it, in this thread
IpcAccept ==
    /\ ServerAlive
    /\ ipcsrv.pc = "poll"
    /\ ipcsrv.running /\ ipcsrv.listening
    /\ \E k \in DOMAIN conn :
          /\ conn[k].state = "queued"
          /\ \A j \in 1..(k - 1) : conn[j].state # "queued"
          /\ conn' = [conn EXCEPT ![k].state = "accepted"]
          /\ ipcsrv' = [ipcsrv EXCEPT !.pc = "handle", !.cur = k]
    /\ UNCHANGED <<hc, cvars, dvars, client, metrics, httpsrv>>
    /\ sstep' = NoSend

\* _handle_client: recv returns data, the next complete line goes to
\* _process_metric -> _on_metric_received -> add_operation_metric
IpcRecv ==
    /\ ServerAlive
    /\ ipcsrv.pc = "handle"
    /\ conn[ipcsrv.cur].buf # <<>>
    /\ conn' = [conn EXCEPT ![ipcsrv.cur].buf = Tail(@)]
    /\ ipcsrv' = [ipcsrv EXCEPT !.pc = "add", !.i = 1,
                                !.metric = Head(conn[ipcsrv.cur].buf),
                                !.received = @ \cup {Head(conn[ipcsrv.cur].buf)}]
    /\ UNCHANGED <<hc, cvars, dvars, client, metrics, httpsrv>>
    /\ sstep' = NoSend

\* add_operation_metric: the i-th of its four appends
IpcAppend ==
    /\ ServerAlive
    /\ ipcsrv.pc = "add"
    /\ metrics' = [metrics EXCEPT ![Families[ipcsrv.i]] =
                       Append(@, Sample(ipcsrv.metric, ipcsrv.i))]
    /\ ipcsrv' = IF ipcsrv.i < Len(Families)
                 THEN [ipcsrv EXCEPT !.i = @ + 1]
                 ELSE [ipcsrv EXCEPT !.pc = "handle", !.i = 0, !.metric = <<>>,
                                     !.added = @ + 1]
    /\ UNCHANGED <<hc, cvars, dvars, client, conn, httpsrv>>
    /\ sstep' = NoSend

\* _handle_client: recv returns b"" (the client closed) or raises
\* socket.timeout (nothing arrived for a second); the handler closes the
\* connection and accept_connections returns to _ipc_loop
IpcHandlerReturns ==
    /\ ServerAlive
    /\ ipcsrv.pc = "handle"
    /\ conn[ipcsrv.cur].buf = <<>>
    /\ conn' = [conn EXCEPT ![ipcsrv.cur].state = "closed"]
    /\ ipcsrv' = [ipcsrv EXCEPT !.pc = "poll", !.cur = 0]
    /\ UNCHANGED <<hc, cvars, dvars, client, metrics, httpsrv>>
    /\ sstep' = NoSend

\* _ipc_loop ends once _running is false
IpcLoopExit ==
    /\ ServerAlive
    /\ ipcsrv.pc = "poll"
    /\ ~ipcsrv.running
    /\ ipcsrv' = [ipcsrv EXCEPT !.pc = "exited"]
    /\ UNCHANGED <<hc, cvars, dvars, client, conn, metrics, httpsrv>>
    /\ sstep' = NoSend

\* ----------------------------------------- metrics server: the main thread
\* the main thread runs its own code (it is not inside the signal handler)
MainRuns == ServerAlive /\ httpsrv.hnd = "none"

\* serve_forever takes a GET /metrics request: do_GET calls export()
HttpGet ==
    /\ MainRuns
    /\ httpsrv.pc = "serve"
    /\ ~httpsrv.shutdown_request
    /\ httpsrv.renders < MaxRenders
    /\ httpsrv' = [httpsrv EXCEPT !.pc = "get", !.fam = 1, !.stage = "group",
                                  !.renders = @ + 1]
    /\ UNCHANGED <<hc, cvars, dvars, client, conn, ipcsrv, metrics>>
    /\ sstep' = NoSend

\* _format_histogram, "Group by labels": one pass over the family's list
RenderGroup ==
    /\ MainRuns
    /\ httpsrv.pc = "get"
    /\ httpsrv.fam \in {1, 2}
    /\ httpsrv.stage = "group"
    /\ httpsrv' = [httpsrv EXCEPT !.stage = "format",
                                  !.by_labels = GroupByLabels(metrics[Families[httpsrv.fam]])]
    /\ UNCHANGED <<hc, cvars, dvars, client, conn, ipcsrv, metrics>>
    /\ sstep' = NoSend

\* _format_histogram that takes _count from the family's list as it is when
\* the lines are written
RenderFormat_live_count ==
    /\ MainRuns
    /\ httpsrv.pc = "get"
    /\ httpsrv.fam \in {1, 2}
    /\ httpsrv.stage = "format"
    /\ LET lines == FormatHistogram(IF httpsrv.fam = 1 THEN DurationBuckets ELSE SizeBuckets,
                                    httpsrv.by_labels)
           now == GroupByLabels(metrics[Families[httpsrv.fam]])
       IN httpsrv' = [httpsrv EXCEPT
                         !.out[httpsrv.fam] =
                             [label_str \in DOMAIN lines |->
                                 [lines[label_str] EXCEPT !.count = Len(now[label_str])]],
                         !.by_labels = <<>>,
                         !.fam = @ + 1, !.stage = "group"]
    /\ UNCHANGED <<hc, cvars, dvars, client, conn, ipcsrv, metrics>>
    /\ sstep' = NoSend

\* _format_histogram, "Create histogram buckets": the lines of every label
\* set, computed from the groups
RenderFormat ==
    /\ MainRuns
    /\ httpsrv.pc = "get"
    /\ httpsrv.fam \in {1, 2}
    /\ httpsrv.stage = "format"
    /\ httpsrv' = [httpsrv EXCEPT
                      !.out[httpsrv.fam] =
                          FormatHistogram(IF httpsrv.fam = 1 THEN DurationBuckets
                                          ELSE SizeBuckets, httpsrv.by_labels),
                      !.by_labels = <<>>,
                      !.fam = @ + 1, !.stage = "group"]
    /\ UNCHANGED <<hc, cvars, dvars, client, conn, ipcsrv, metrics>>
    /\ sstep' = NoSend

\* _format_gauge for operation_throughput_mbps
RenderGauge ==
    /\ MainRuns
    /\ httpsrv.pc = "get"
    /\ httpsrv.fam = 3
    /\ httpsrv' = [httpsrv EXCEPT !.out[3] = FormatGauge(metrics[Families[3]]),
                                  !.fam = 4]
    /\ UNCHANGED <<hc, cvars, dvars, client, conn, ipcsrv, metrics>>
    /\ sstep' = NoSend

\* _format_counter for operation_total; export returns, do_GET writes the
\* response and the lines are dropped
RenderCounter ==
    /\ MainRuns
    /\ httpsrv.pc = "get"
    /\ httpsrv.fam = 4
    /\ httpsrv' = [httpsrv EXCEPT !.total = FormatCounter(metrics[Families[4]]),
                                  !.out = NoLines,
                                  !.fam = 0, !.stage = "", !.pc = "serve"]
    /\ UNCHANGED <<hc, cvars, dvars, client, conn, ipcsrv, metrics>>
    /\ sstep' = NoSend

\* SIGTERM arrives once signal_handler is registered: the handler starts on
\* the main thread, whatever that thread was doing
Sigterm ==
    /\ proc[ServerPid] \in {"written", "serving"}
    /\ httpsrv.hnd = "none"
    /\ proc' = [proc EXCEPT ![ServerPid] = "stopping"]
    /\ httpsrv' = [httpsrv EXCEPT !.hnd = "stop"]
    /\ UNCHANGED <<hc, cvars, port, pidFile, stateFile, socketFile, sup, dstep,
                   client, conn, ipcsrv, metrics>>
    /\ sstep' = NoSend

\* MetricsHTTPServer.stop, first half: _running = False and, if
\* self.ipc_server is set, MetricsIPCServer.stop (close the listening
\* socket, unlink the socket file)
HandlerStopIpc ==
    /\ ServerAlive
    /\ httpsrv.hnd = "stop"
    /\ ipcsrv' = [ipcsrv EXCEPT !.running = FALSE, !.listening = FALSE]
    /\ socketFile' = IF httpsrv.pc = "main" THEN socketFile ELSE FALSE
    /\ conn' = [k \in DOMAIN conn |->
                   IF conn[k].state = "queued"
                   THEN [conn[k] EXCEPT !.state = "reset", !.buf = <<>>] ELSE conn[k]]
    /\ httpsrv' = [httpsrv EXCEPT !.hnd = "thread"]
    /\ UNCHANGED <<hc, cvars, proc, port, pidFile, stateFile, sup, dstep,
                   client, metrics>>
    /\ sstep' = NoSend

\* MetricsHTTPServer.stop, second half: if self.server is set, the shutdown
\* thread is started and calls server.shutdown(), which requests the
\* shutdown and waits for serve_forever to leave its loop; if not, stop()
\* and the signal handler return
HandlerStartShutdown ==
    /\ ServerAlive
    /\ httpsrv.hnd = "thread"
    /\ httpsrv' = IF httpsrv.pc \in {"main", "ipc", "thread"}
                  THEN [httpsrv EXCEPT !.hnd = "none"]
                  ELSE [httpsrv EXCEPT !.hnd = "join", !.sth = "waiting",
                                       !.shutdown_request = TRUE]
    /\ UNCHANGED <<hc, cvars, dvars, client, conn, ipcsrv, metrics>>
    /\ sstep' = NoSend

\* shutdown_thread.join() without a timeout
HandlerJoin_no_timeout ==
    /\ ServerAlive
    /\ httpsrv.hnd = "join"
    /\ httpsrv.sth = "done"
    /\ httpsrv' = [httpsrv EXCEPT !.hnd = "none"]
    /\ UNCHANGED <<hc, cvars, dvars, client, conn, ipcsrv, metrics>>
    /\ sstep' = NoSend

\* shutdown_thread.join(timeout=5) returns, the thread finished or not, and
\* the signal handler returns to what the main thread was doing
HandlerJoin ==
    /\ ServerAlive
    /\ httpsrv.hnd = "join"
    /\ httpsrv' = [httpsrv EXCEPT !.hnd = "none"]
    /\ UNCHANGED <<hc, cvars, dvars, client, conn, ipcsrv, metrics>>
    /\ sstep' = NoSend

\* serve_forever finds the shutdown request, leaves its loop and sets
\* __is_shut_down
ServeLoopExit ==
    /\ MainRuns
    /\ httpsrv.pc = "serve"
    /\ httpsrv.shutdown_request
    /\ httpsrv' = [httpsrv EXCEPT !.pc = "left", !.shutdown_request = FALSE]
    /\ UNCHANGED <<hc, cvars, dvars, client, conn, ipcsrv, metrics>>
    /\ sstep' = NoSend

\* the shutdown thread: shutdown() returns once serve_forever has left its
\* loop; server_close() closes the HTTP socket
ShutdownThreadClose ==
    /\ ServerAlive
    /\ httpsrv.sth = "waiting"
    /\ httpsrv.pc = "left"
    /\ httpsrv' = [httpsrv EXCEPT !.sth = "done"]
    /\ port' = port \ {ServerPid}
    /\ UNCHANGED <<hc, cvars, proc, pidFile, stateFile, socketFile, sup, dstep,
                   client, conn, ipcsrv, metrics>>
    /\ sstep' = NoSend

\* server.start() has returned: the finally block of main runs cleanup()
\* and the process exits, its daemon threads and its memory with it
MainExit ==
    /\ MainRuns
    /\ httpsrv.pc = "left"
    /\ pidFile' = AbsentFile
    /\ stateFile' = FALSE
    /\ proc' = [proc EXCEPT ![ServerPid] = "none"]
    /\ port' = port \ {ServerPid}
    /\ httpsrv' = NoHttp
    /\ ipcsrv' = IpcGone
    /\ metrics' = NoMetrics
    /\ conn' = Dropped(conn)
    /\ dstep' = DStep("daemon", "exit")
    /\ UNCHANGED <<hc, cvars, socketFile, sup, client>>
    /\ sstep' = NoSend

\* the daemon is killed (SIGKILL): nothing is cleaned up, its memory is gone
ServerKill ==
    /\ ServerAlive
    /\ proc' = [proc EXCEPT ![ServerPid] = "none"]
    /\ port' = port \ {ServerPid}
    /\ pidFile' = Orphaned(pidFile, ServerPid)
    /\ httpsrv' = NoHttp
    /\ ipcsrv' = IpcGone
    /\ metrics' = NoMetrics
    /\ conn' = Dropped(conn)
    /\ dstep' = DStep("kernel", "kill")
    /\ UNCHANGED <<hc, cvars, stateFile, socketFile, sup, client>>
    /\ sstep' = NoSend

\* ------------------------------------- metrics server: specification
\* a daemon started by the supervisor is serving; workers have not connected
ServerInit ==
    /\ leader = 1
    /\ bag = [k \in PeerKeys |-> ""]
    /\ svc = [u \in Units |-> {}]
    /\ config = [valid |-> FALSE, autostart |-> FALSE]
    /\ dirs = [u \in Units |-> {}]
    /\ nextId = 0
    /\ event = EnvStep
    /\ proc = [p \in Pids |-> IF p = ServerPid THEN "serving" ELSE "none"]
    /\ port = {ServerPid}
    /\ pidFile = PidFileOf(StrOfPid(ServerPid), ServerPid)
    /\ stateFile \in BOOLEAN
    /\ socketFile = TRUE
    /\ sup = Idle
    /\ dstep = Quiet
    /\ client = NoClients
    /\ conn = <<>>
    /\ ipcsrv = IpcPoll
    /\ metrics = NoMetrics
    /\ httpsrv = Serving
    /\ sstep = NoSend
    /\ hc = Stream(<<>>)

\* the steps of the daemon's own threads
ServerThreads ==
    \/ IpcAccept
    \/ IpcRecv
    \/ IpcAppend
    \/ IpcHandlerReturns
    \/ IpcLoopExit
    \/ RenderGroup
    \/ RenderFormat
    \/ RenderGauge
    \/ RenderCounter
    \/ HandlerStopIpc
    \/ HandlerStartShutdown
    \/ HandlerJoin
    \/ ServeLoopExit
    \/ ShutdownThreadClose
    \/ MainExit

ServerNext ==
    \/ \E c \in Clients : SendMetric(c)
    \/ HttpGet
    \/ Sigterm
    \/ ServerKill
    \/ ServerThreads

ServerSpec == ServerInit /\ [][ServerNext]_vars

\* every thread of the daemon keeps being scheduled
ServerFairSpec == ServerSpec /\ WF_vars(ServerThreads)

ServerTypeOK ==
    /\ \A c \in Clients : client.sock[c] \in 0..Len(conn)
    /\ Len(conn) <= MaxConns
    /\ ipcsrv.pc \in {"poll", "handle", "add", "exited"}
    /\ httpsrv.pc \in {"serve", "get", "left", "exited"}
    /\ httpsrv.hnd \in {"none", "stop", "thread", "join"}
    /\ \A i \in DOMAIN Families : Len(metrics[Families[i]]) <= MaxRecords

\* ------------------------------------------- metrics server: the startup
\* MetricsHTTPServer.start: the MetricsIPCServer is created and started
\* (the socket file is bound, the socket listens)
StartIpc ==
    /\ proc[ServerPid] \in {"written", "stopping"}
    /\ httpsrv.hnd = "none"
    /\ httpsrv.pc = "main"
    /\ ipcsrv' = [ipcsrv EXCEPT !.listening = TRUE]
    /\ socketFile' = TRUE
    /\ httpsrv' = [httpsrv EXCEPT !.pc = "ipc"]
    /\ UNCHANGED <<hc, cvars, proc, port, pidFile, stateFile, sup, dstep,
                   client, conn, metrics, sstep>>

\* ... self._running = True, and the thread that runs _ipc_loop is started
StartThread ==
    /\ proc[ServerPid] \in {"written", "stopping"}
    /\ httpsrv.hnd = "none"
    /\ httpsrv.pc = "ipc"
    /\ ipcsrv' = [ipcsrv EXCEPT !.running = TRUE, !.pc = "poll"]
    /\ httpsrv' = [httpsrv EXCEPT !.pc = "thread"]
    /\ UNCHANGED <<hc, cvars, dvars, client, conn, metrics, sstep>>

\* ... self.server = HTTPServer(...): the port is bound
StartHttp ==
    /\ proc[ServerPid] \in {"written", "stopping"}
    /\ httpsrv.hnd = "none"
    /\ httpsrv.pc = "thread"
    /\ proc' = [proc EXCEPT ![ServerPid] = IF @ = "written" THEN "serving" ELSE @]
    /\ port' = port \cup {ServerPid}
    /\ httpsrv' = [httpsrv EXCEPT !.pc = "bound"]
    /\ UNCHANGED <<hc, cvars, pidFile, stateFile, socketFile, sup, dstep,
                   client, conn, ipcsrv, metrics, sstep>>

\* ... self.server.serve_forever(poll_interval=0.5) is entered
StartServe ==
    /\ MainRuns
    /\ httpsrv.pc = "bound"
    /\ httpsrv' = [httpsrv EXCEPT !.pc = "serve"]
    /\ UNCHANGED <<hc, cvars, dvars, client, conn, ipcsrv, metrics, sstep>>

\* main has written the PID file, created the MetricsHTTPServer and
\* registered signal_handler for SIGTERM and SIGINT; server.start() is next
StartupInit ==
    /\ leader = 1
    /\ bag = [k \in PeerKeys |-> ""]
    /\ svc = [u \in Units |-> {}]
    /\ config = [valid |-> FALSE, autostart |-> FALSE]
    /\ dirs = [u \in Units |-> {}]
    /\ nextId = 0
    /\ event = EnvStep
    /\ proc = [p \in Pids |-> IF p = ServerPid THEN "written" ELSE "none"]
    /\ port = {}
    /\ pidFile = PidFileOf(StrOfPid(ServerPid), ServerPid)
    /\ stateFile \in BOOLEAN
    /\ socketFile \in BOOLEAN
    /\ sup = Idle
    /\ dstep = Quiet
    /\ client = NoClients
    /\ conn = <<>>
    /\ ipcsrv = IpcGone
    /\ metrics = NoMetrics
    /\ httpsrv = [Serving EXCEPT !.pc = "main"]
    /\ sstep = NoSend
    /\ hc = Stream(<<>>)

\* the steps of the daemon's own threads from the startup on
StartupThreads ==
    \/ StartIpc
    \/ StartThread
    \/ StartHttp
    \/ StartServe
    \/ IpcLoopExit
    \/ RenderGroup
    \/ RenderFormat
    \/ RenderGauge
    \/ RenderCounter
    \/ HandlerStopIpc
    \/ HandlerStartShutdown
    \/ HandlerJoin
    \/ ServeLoopExit
    \/ ShutdownThreadClose
    \/ MainExit

\* the daemon from the registration of its signal handlers on, with no
\* worker connecting; every thread of the daemon keeps being scheduled
StartupFairSpec ==
    /\ StartupInit
    /\ [][StartupThreads \/ HttpGet \/ Sigterm \/ ServerKill]_vars
    /\ WF_vars(StartupThreads)

\* ---------------------------- metrics server: one connection, byte by byte
\* the producer writes one more line
ProducerWrite(frame) ==
    /\ ~hc.eof
    /\ hc.pc # "closed"
    /\ hc.frames < MaxFrames
    /\ hc' = [hc EXCEPT !.written = @ \o frame, !.frames = @ + 1]
    /\ UNCHANGED <<cvars, dvars, svars>>

\* the producer closes its socket, possibly after the tail of a line it
\* did not finish
ProducerClose(tail) ==
    /\ ~hc.eof
    /\ hc.pc # "closed"
    /\ hc' = [hc EXCEPT !.written = @ \o tail, !.eof = TRUE]
    /\ UNCHANGED <<cvars, dvars, svars>>

\* _handle_client: conn.recv returns the next n bytes, which are decoded and
\* appended to the buffer; UnicodeDecodeError is caught by the handler's
\* "except Exception", and "finally" closes the connection
HandleRecv(n) ==
    LET data == SubSeq(hc.written, hc.rpos + 1, hc.rpos + n)
        d == DecodeUtf8(data)
        buffer == hc.buffer \o d.text
    IN /\ hc.pc = "recv"
       /\ n \in 1..(Len(hc.written) - hc.rpos)
       /\ hc' = IF d.ok
                THEN [hc EXCEPT !.rpos = @ + n, !.buffer = buffer,
                                !.pc = IF \E i \in DOMAIN buffer : buffer[i] = "\n"
                                       THEN "lines" ELSE "recv"]
                ELSE [hc EXCEPT !.rpos = @ + n, !.buffer = <<>>,
                                !.pc = "closed", !.how = "error"]
       /\ UNCHANGED <<cvars, dvars, svars>>

\* the inner loop that lets an exception of _process_metric reach the
\* handler's "except Exception"
HandleLine_raises ==
    LET s == SplitLine(hc.buffer)
        json_str == Strip(s.line)
        metric == ProcessMetric(json_str)
    IN /\ hc.pc = "lines"
       /\ hc' = IF json_str # <<>> /\ metric = ""
                THEN [hc EXCEPT !.buffer = <<>>, !.pc = "closed", !.how = "error"]
                ELSE [hc EXCEPT
                         !.buffer = s.rest,
                         !.ingested = IF json_str = <<>> THEN @ ELSE Append(@, metric),
                         !.pc = IF \E i \in DOMAIN s.rest : s.rest[i] = "\n"
                                THEN "lines" ELSE "recv"]
       /\ UNCHANGED <<cvars, dvars, svars>>

\* _handle_client, one turn of 'while "\n" in buffer': the first line is
\* split off and, unless it is blank, goes through _process_metric
HandleLine ==
    LET s == SplitLine(hc.buffer)
        json_str == Strip(s.line)
        metric == ProcessMetric(json_str)
    IN /\ hc.pc = "lines"
       /\ hc' = [hc EXCEPT
                    !.buffer = s.rest,
                    !.ingested = IF json_str = <<>> \/ metric = "" THEN @
                                 ELSE Append(@, metric),
                    !.pc = IF \E i \in DOMAIN s.rest : s.rest[i] = "\n"
                           THEN "lines" ELSE "recv"]
       /\ UNCHANGED <<cvars, dvars, svars>>

\* _handle_client: conn.recv has nothing to return: b"" when the producer
\* has closed, socket.timeout after a second otherwise; either way the read
\* loop ends, the buffer is dropped and conn.close() runs
HandleEnds ==
    /\ hc.pc = "recv"
    /\ hc.rpos = Len(hc.written)
    /\ hc' = [hc EXCEPT !.buffer = <<>>, !.pc = "closed",
                        !.how = IF hc.eof THEN "eof" ELSE "timeout"]
    /\ UNCHANGED <<cvars, dvars, svars>>

\* a producer has connected and the IPC thread has called _handle_client
HandleInit ==
    /\ leader = 1
    /\ bag = [k \in PeerKeys |-> ""]
    /\ svc = [u \in Units |-> {}]
    /\ config = [valid |-> FALSE, autostart |-> FALSE]
    /\ dirs = [u \in Units |-> {}]
    /\ nextId = 0
    /\ event = EnvStep
    /\ NoDaemon
    /\ client = NoClients
    /\ conn = <<>>
    /\ ipcsrv = IpcGone
    /\ metrics = NoMetrics
    /\ httpsrv = NoHttp
    /\ sstep = NoSend
    /\ hc = Stream(<<>>)

HandleNext ==
    \/ \E frame \in Frames : ProducerWrite(frame)
    \/ \E tail \in {<<>>, <<"{", "a">>, <<"{", "b", "}">>} : ProducerClose(tail)
    \/ \E n \in 1..Len(hc.written) : HandleRecv(n)
    \/ HandleLine
    \/ HandleEnds

HandleSpec == HandleInit /\ [][HandleNext]_vars

\* ------------------------------------------------------------------ claims
\* the step just taken was a hook or an action handled by unit u
Handled(u) == event'.op # "env" /\ event'.unit = u /\ leader' = leader

TestState(b) == GetPeerData(b, "test_state", "idle")

\* values a handler may try to write to a databag key
WrittenValues == {"idle", "running", "stopped", "failed", "10.0.0.1", "uuid-1"}

\* C1: a peer-databag key changes only in a step handled by the unit that is
\* leader at that moment; a handler run on a non-leader unit leaves the whole
\* databag unchanged, and _set_peer_data called on a non-leader writes nothing.
C1_OnlyLeaderWritesDatabag ==
    [][ /\ (bag' # bag => Handled(leader))
        /\ \A u \in Units : (Handled(u) /\ ~is_leader(u)) => bag' = bag
        /\ \A u \in Units \ {leader}, k \in PeerKeys, v \in WrittenValues :
               SetPeerData(u, bag, k, v) = bag ]_vars

\* a non-leader has handled a cluster-relation event while the databag holds
\* a run published by the leader
C1_Witness ==
    /\ event.op = "cluster-changed"
    /\ event.unit # leader
    /\ bag["test_state"] = "running"
    /\ bag["leader_address"] # ""

\* C2 as stated: start-test on the leader while test_state is running fails
\* with a message containing "already running" and changes nothing; and
\* test_run_id never changes while test_state stays running.
C2_Original ==
    [][ /\ (Handled(leader) /\ event'.op = "start-test" /\ TestState(bag) = "running")
             => /\ ~event'.ok
                /\ Contains(event'.msg, <<"already", "running">>)
                /\ UNCHANGED <<bag, svc, dirs>>
        /\ (TestState(bag) = "running" /\ TestState(bag') = "running")
             => bag'["test_run_id"] = bag["test_run_id"] ]_vars

\* C2 (amended): start-test on the leader while test_state is running fails
\* and leaves test_state, test_run_id, scenario_file, the services and the run
\* directories unchanged; its message contains "already running" when the
\* configuration is valid (with an incomplete configuration the earlier
\* configuration guard answers instead); test_run_id never changes while
\* test_state stays running.
C2_StartWhileRunningRefused ==
    [][ /\ (Handled(leader) /\ event'.op = "start-test" /\ TestState(bag) = "running")
             => /\ ~event'.ok
                /\ (IsConfigValid => Contains(event'.msg, <<"already", "running">>))
                /\ (~IsConfigValid => Contains(event'.msg, <<"configuration", "is", "incomplete">>))
                /\ UNCHANGED <<bag, svc, dirs>>
        /\ (TestState(bag) = "running" /\ TestState(bag') = "running")
             => bag'["test_run_id"] = bag["test_run_id"] ]_vars

\* a start-test was refused on the leader because a run is in progress
C2_Witness ==
    /\ event.op = "start-test"
    /\ event.unit = leader
    /\ ~event.ok
    /\ Contains(event.msg, <<"already", "running">>)
    /\ bag["test_state"] = "running"
    /\ bag["test_run_id"] # ""

\* C3: start-test, stop-test and fetch-metrics on a non-leader fail with a
\* message containing "leader" and change neither the databag nor a service
\* nor a run directory; test-status succeeds on any unit, changes nothing and
\* reports is_leader = false on a non-leader (true on the leader).
C3_NonLeaderActionsRefused ==
    [][ \A u \in Units :
          /\ (Handled(u) /\ ~is_leader(u)
                /\ event'.op \in {"start-test", "stop-test", "fetch-metrics"})
               => /\ ~event'.ok
                  /\ Contains(event'.msg, <<"leader">>)
                  /\ UNCHANGED <<bag, svc, dirs, nextId>>
          /\ (Handled(u) /\ event'.op = "test-status")
               => /\ event'.ok
                  /\ event'.is_leader = is_leader(u)
                  /\ UNCHANGED <<bag, svc, dirs, nextId>> ]_vars

\* stop-test was refused on a demoted unit that still runs a leader service
C3_Witness ==
    /\ event.op = "stop-test"
    /\ event.unit # leader
    /\ ~event.ok
    /\ svc[event.unit] \cap LeaderServices # {}
    /\ bag["test_state"] = "running"

\* C4: once a unit that lost the leadership has handled an event as a
\* non-leader, neither the headless nor the web-ui leader service is active
\* on it.
C4_DemotedUnitStopsLeaderServices ==
    [][ \A u \in Units :
          (Handled(u) /\ ~is_leader(u)) => svc'[u] \cap LeaderServices = {} ]_vars

\* C5: when a unit handles leader-elected, test_state becomes failed if it was
\* running immediately before and idle in every other case; afterwards it is
\* never running.
C5_LeaderElectedResetsTestState ==
    [][ event'.op = "leader-elected"
          => /\ bag'["test_state"] = IF TestState(bag) = "running" THEN "failed" ELSE "idle"
             /\ bag'["test_state"] # "running" ]_vars

\* a new leader has handled leader-elected in the middle of a run
C5_Witness ==
    /\ event.op = "leader-elected"
    /\ event.previous_state = "running"
    /\ bag["test_state"] = "failed"

\* C6: the leader-elected handler stops every local workload service and
\* starts none, and leaves test_run_id unchanged.
C6_LeaderElectedStartsNothing ==
    [][ event'.op = "leader-elected"
          => /\ svc'[event'.unit] = {}
             /\ bag'["test_run_id"] = bag["test_run_id"] ]_vars

\* a unit that did not start the published run has handled leader-elected
C6_Witness ==
    /\ event.op = "leader-elected"
    /\ event.previous_state = "running"
    /\ bag["test_run_id"] # ""
    /\ bag["test_run_id"] \notin dirs[event.unit]
    /\ svc[event.unit] = {}

\* C7: if test_state is running and no leader workload runs on the leader,
\* the leader's update-status sets test_state to failed; after an
\* update-status handled by the leader the state "running without a leader
\* workload on the leader" does not hold.
C7_UpdateStatusFailsDeadRun ==
    [][ (Handled(leader) /\ event'.op = "update-status")
          => /\ (TestState(bag) = "running" /\ svc[leader] \cap LeaderServices = {})
                  => bag'["test_state"] = "failed"
             /\ ~(TestState(bag') = "running" /\ svc'[leader] \cap LeaderServices = {}) ]_vars

\* the leader's update-status found the run without its process and failed it
C7_Witness ==
    /\ event.op = "update-status"
    /\ event.unit = leader
    /\ event.previous_state = "running"
    /\ bag["test_state"] = "failed"
    /\ svc[leader] \cap LeaderServices = {}

\* C8: a test-status that directly follows a successful start-test on the
\* same leader returns test_state running and the test_run_id start-test
\* returned.
C8_StartThenStatus ==
    [][ (event.op = "start-test" /\ event.ok
           /\ event'.op = "test-status" /\ event'.unit = event.unit)
          => /\ event'.test_state = "running"
             /\ event'.test_run_id = event.test_run_id ]_vars

\* test-status on the leader reports the run in progress
C8_Witness ==
    /\ event.op = "test-status"
    /\ event.is_leader
    /\ event.test_state = "running"
    /\ event.test_run_id = bag["test_run_id"]
    /\ event.test_run_id \in dirs[event.unit]
    /\ event.leader_running

\* C9: stop-test on the leader stops both leader service variants, sets
\* test_state to stopped and returns the current test_run_id unchanged; a
\* stop-test directly after a successful start-test returns the id of the
\* started run, and a test-status directly after it reports stopped,
\* leader_running false and that id.
C9_StartStopStatus ==
    [][ /\ (Handled(leader) /\ event'.op = "stop-test")
             => /\ event'.ok
                /\ svc'[leader] \cap LeaderServices = {}
                /\ bag'["test_state"] = "stopped"
                /\ bag'["test_run_id"] = bag["test_run_id"]
                /\ event'.test_run_id = GetPeerData(bag, "test_run_id", "unknown")
        /\ (event.op = "start-test" /\ event.ok
              /\ event'.op = "stop-test" /\ event'.unit = event.unit)
             => event'.test_run_id = event.test_run_id
        /\ (event.op = "stop-test" /\ event.ok
              /\ event'.op = "test-status" /\ event'.unit = event.unit)
             => /\ event'.test_state = "stopped"
                /\ ~event'.leader_running
                /\ event'.test_run_id = bag["test_run_id"]
                /\ (bag["test_run_id"] # "" => event'.test_run_id = event.test_run_id) ]_vars

\* test-status on the leader reports a stopped run
C9_Witness ==
    /\ event.op = "test-status"
    /\ event.is_leader
    /\ event.test_state = "stopped"
    /\ ~event.leader_running
    /\ event.test_run_id # ""
    /\ event.test_run_id \in dirs[event.unit]

\* int(v) succeeds with a value above zero
IsPositiveInt(v) == PyIntOf(v).ok /\ PyIntOf(v).val > 0
\* float(v) succeeds with a value above zero
IsPositiveNumber(v) == PyFloatOf(v).ok /\ PyFloatOf(v).val > 0
\* the value given for an option: the action parameter, else the config option
Given(param, option) == IF param = PyNone THEN option ELSE param

\* C10: start-test fails with the invalid-numeric message and leaves the
\* databag, the run directories and the services unchanged whenever users is
\* not a positive integer or spawn-rate is not a positive number.
C10_NonPositiveRejected ==
    [][ \A users_p \in UsersParams, spawn_p \in SpawnParams, cfg \in ConfigOptions :
          (/\ is_leader(leader) /\ IsConfigValid /\ TestState(bag) # "running"
           /\ \/ ~IsPositiveInt(Given(users_p, cfg.users))
              \/ ~IsPositiveNumber(Given(spawn_p, cfg.spawn_rate))
           /\ StartTestRun(leader, users_p, spawn_p, cfg))
          => /\ ~event'.ok
             /\ Contains(event'.msg, <<"numeric">>)
             /\ UNCHANGED <<bag, svc, dirs>> ]_vars

StatusOps == {"start", "update-status", "leader-elected", "cluster-changed", "config-changed"}

\* C12: while the required configuration is incomplete, no handler starts a
\* workload service; start-test is refused without changing the databag (on
\* the leader with "S3 configuration is incomplete"); config-changed and
\* cluster-changed start no worker; every status recomputation presents the
\* unit as blocked.
C12_InvalidConfigStartsNothing ==
    [][ (~IsConfigValid /\ event'.op # "env")
        => /\ \A u \in Units : svc'[u] \subseteq svc[u]
           /\ event'.op = "start-test"
              => /\ ~event'.ok
                 /\ bag' = bag
                 /\ is_leader(event'.unit)
                    => Contains(event'.msg, <<"S3", "configuration", "is", "incomplete">>)
           /\ event'.op \in StatusOps => event'.status.name = "blocked" ]_vars

\* a worker unit that knows the leader address and has autostart enabled
\* handled a cluster-relation event while the configuration was incomplete
C12_Witness ==
    /\ ~IsConfigValid
    /\ config.autostart
    /\ event.op = "cluster-changed"
    /\ event.unit # leader
    /\ bag["leader_address"] # ""
    /\ event.status.name = "blocked"
    /\ WORKER_SERVICE \notin svc[event.unit]

\* C13: a start-test that passed its guards (the run directory was created)
\* and then failed in step 4 or step 5 leaves test_state = failed and the
\* published test_run_id as it was.
C13_FailedLaunchSetsFailed ==
    [][ (event'.op = "start-test" /\ ~event'.ok /\ nextId' # nextId)
        => /\ TestState(bag') = "failed"
           /\ bag'["test_run_id"] = bag["test_run_id"] ]_vars

\* C14: test_state becomes running only through a successful start-test, and
\* becomes stopped only when it was running immediately before.
C14_Lifecycle ==
    [][ /\ (TestState(bag') = "running" /\ TestState(bag) # "running")
           => (event'.op = "start-test" /\ event'.ok)
        /\ (TestState(bag') = "stopped" /\ TestState(bag) # "stopped")
           => TestState(bag) = "running" ]_vars

\* the projection of (role, config_valid, test_state, worker_running,
\* leader_address) onto a presentation status
Projection(is_lead, config_valid, test_state, worker_running, leader_address) ==
    IF ~config_valid THEN "blocked" :> <<>>
    ELSE IF is_lead
    THEN "active" :> <<"Leader ready (", IntToStr(Cardinality(Units) - 1),
                       " workers, test: ", test_state, ")">>
    ELSE IF leader_address = "" THEN "waiting" :> <<"Waiting for leader address">>
    ELSE "active" :> <<"Worker ", IF worker_running THEN "connected" ELSE "ready",
                       " -> ", leader_address>>

\* C15: after start, update-status, leader-elected, a cluster-relation event
\* and a config-changed that completed without error, the status of the unit
\* is the projection of its role, config validity, test_state, worker
\* service and leader_address as they are after the handler.
C15_StatusIsProjection ==
    [][ \A u \in Units :
          (/\ Handled(u)
           /\ event'.op \in StatusOps
           /\ event'.ok
           /\ ~Contains(event'.status.message, <<"Config error: ">>))
          => LET p == Projection(leader' = u, config'.valid, TestState(bag'),
                                 WORKER_SERVICE \in svc'[u], bag'["leader_address"])
                 name == CHOOSE n \in DOMAIN p : TRUE
             IN /\ event'.status.name = name
                /\ name # "blocked" => event'.status.message = p[name] ]_vars

\* a worker whose service is running presented itself as connected
C15_Witness ==
    /\ event.op \in StatusOps
    /\ event.unit # leader
    /\ IsConfigValid
    /\ WORKER_SERVICE \in svc[event.unit]
    /\ event.status = Status("active", <<"Worker ", "connected", " -> ", bag["leader_address"]>>)

\* the pid the PID file names is a process that exists
NamesLiveProcess(pf, pr) ==
    /\ pf.exists
    /\ IntOfText(pf.text).ok
    /\ Kill0(pr, IntOfText(pf.text).val) # "ESRCH"

\* the pid the PID file names is a daemon that is alive
NamesLiveDaemon(pf, pr) ==
    /\ pf.exists
    /\ IntOfText(pf.text).ok
    /\ IsChopsticksProcess(pr, IntOfText(pf.text).val)

\* C16: no supervisor command sends a signal to a process whose command
\* line is not the daemon's, also when the PID file names a live foreign
\* process because the pid was reused.
C16_OnlyDaemonsSignalled ==
    [][ \A p \in dstep'.sent : IsChopsticksProcess(proc, p) ]_vars

\* the steps in which cleanup_stale_files ran
CleanupRan ==
    /\ dstep'.actor = "supervisor"
    /\ \/ dstep'.op = "cleanup"
       \/ dstep'.op = "start" /\ dstep'.running # "yes"

\* C17: cleanup_stale_files sends SIGTERM to a process on the configured
\* port only if its command line is the daemon's; a foreign process on the
\* port is never signalled, whatever the PID file holds.
C17_CleanupSignalsOnlyDaemons ==
    [][ /\ CleanupRan => \A p \in dstep'.sent : p \in port /\ IsChopsticksProcess(proc, p)
        /\ \A lsof_works \in BOOLEAN :
              \A p \in CleanupStaleFiles(pidFile, stateFile, socketFile,
                                         proc, port, lsof_works).sent :
                 IsChopsticksProcess(proc, p) ]_vars

\* cleanup_stale_files signalled a daemon on the port and left a foreign
\* process on the same port alone
C17_Witness ==
    /\ dstep.op = "cleanup"
    /\ dstep.sent # {}
    /\ \E q \in port : proc[q] = "foreign"

\* C18: a supervisor step removes the PID file or the state file only when
\* the pid the PID file names is not a live daemon; in particular stop
\* leaves them when the daemon outlives its waits.
C18_FilesRemovedOnlyWithoutOwner ==
    [][ (/\ dstep'.actor = "supervisor"
         /\ \/ pidFile.exists /\ ~pidFile'.exists
            \/ stateFile /\ ~stateFile')
        => ~NamesLiveDaemon(pidFile, proc) ]_vars

\* C19 as stated: if the PID file exists, the pid it names is a live daemon
\* (or a live daemon is in the middle of writing its pid into it), or a
\* supervisor command is in progress.
C19_Original ==
    pidFile.exists
    => \/ NamesLiveDaemon(pidFile, proc)
       \/ pidFile.text = "" /\ proc[pidFile.writer] = "writing"
       \/ sup.pc # "idle"

\* C19: if the PID file exists, the daemon that created it is alive and the
\* file is empty or holds that daemon's pid, or that daemon died without
\* running its cleanup and the file is stale.
C19_PidFileOwnerAliveOrStale ==
    pidFile.exists
    => \/ pidFile.stale
       \/ /\ pidFile.writer \in Pids
          /\ proc[pidFile.writer] \in DaemonPhases \ {"spawned"}
          /\ pidFile.text \in {"", StrOfPid(pidFile.writer)}

\* a crashed daemon left its PID file behind and no command is in progress
C19_Witness ==
    /\ pidFile.exists
    /\ pidFile.stale
    /\ sup.pc = "idle"
    /\ proc[pidFile.writer] = "none"
    /\ dstep.actor = "none"

C29_WorkerStoppedOrRestarted ==
    [][ \A u \in Units :
          (Handled(u) /\ event'.op = "cluster-changed" /\ ~is_leader(u))
          => /\ WORKER_SERVICE \in svc'[u]
                => /\ event'.worker_host # ""
                   /\ event'.worker_host = GetPeerData(bag, "leader_address", "")
                   /\ config.autostart
                   /\ IsConfigValid
             /\ svc'[u] \ {WORKER_SERVICE} = svc[u] \ {WORKER_SERVICE}
             /\ bag' = bag ]_vars

\* a worker handled a cluster-relation event and runs against the leader
\* address now in the databag
C29_Witness ==
    /\ event.op = "cluster-changed"
    /\ event.unit # leader
    /\ event.ok
    /\ WORKER_SERVICE \in svc[event.unit]
    /\ event.worker_host # ""
    /\ event.worker_host = bag["leader_address"]

\* C30: the leader's update-status turns test_state from running to failed
\* only when neither the headless nor the web-ui leader service is active on
\* the leader; a run whose web-ui leader service is active stays running.
C30_UpdateStatusKeepsWebUiRun ==
    [][ (/\ Handled(leader)
         /\ event'.op = "update-status"
         /\ TestState(bag) = "running"
         /\ TestState(bag') # "running")
        => svc[leader] \cap LeaderServices = {} ]_vars

\* the daemon processes that are alive
LiveDaemons(pr) == {p \in Pids : pr[p] \in DaemonPhases}

StopStep == dstep'.actor = "supervisor" /\ dstep'.op = "stop"

C24_ServingHasPidAndStateFile ==
    \A p \in Pids :
        proc[p] = "serving"
        => /\ pidFile.exists
           /\ pidFile.text = StrOfPid(p)
           /\ stateFile

\* ---- C25
\* C25: a connection handler never blocks the accept loop: while a client
\* connection is open the IPC server still accepts further connections, so
\* a connection waiting in the backlog of a listening server always finds
\* the accept loop ready to accept it (not inside _handle_client).
C25_HandlerNeverBlocksAccept ==
    \A k \in DOMAIN conn :
        (ServerAlive /\ ipcsrv.listening /\ conn[k].state = "queued")
            => ipcsrv.pc = "poll"

\* ---- C26
\* a step that is one send_metric call
SendStep == sstep'.op = "send"

\* the records that are on their way or have arrived: in a connection's
\* buffer, or handed to the aggregator
Delivered ==
    UNION {{conn[k].buf[i] : i \in DOMAIN conn[k].buf} : k \in DOMAIN conn}
        \cup ipcsrv.received

\* C26: send_metric never raises on a broken pipe, a reset or a refused
\* connection: the failed call returns false, discards the record (nothing
\* is queued on any connection) and forgets the socket; a call made without
\* a socket attempts a connect first; and a discarded record is never
\* delivered later.
C26_SendMetricDiscardsAndReconnects ==
    [][SendStep =>
          LET c == sstep'.client IN
          /\ ~sstep'.raised
          /\ client.sock[c] = 0 => sstep'.connect # ""
          /\ ~sstep'.ok =>
                /\ \/ sstep'.error \in {"BrokenPipeError", "ConnectionResetError"}
                   \/ sstep'.connect \in {"ConnectionRefusedError", "no-path"}
                /\ client'.sock[c] = 0
                /\ sstep'.metric \in client'.discarded
                /\ conn' = conn
          /\ sstep'.ok =>
                /\ client'.sock[c] # 0
                /\ sstep'.metric \notin client'.discarded
          /\ client'.discarded \cap Delivered' = {} ]_vars

\* a worker whose record was discarded on a broken connection has connected
\* again on its next call and sent the next record
C26_Witness ==
    /\ sstep.op = "send"
    /\ sstep.ok
    /\ sstep.connect = "connected"
    /\ \E m \in client.discarded :
          /\ m.operation_type = sstep.metric.operation_type
          /\ m \notin Delivered

\* ---- C27
\* a step in which export() returns and the response is written
RenderDone == httpsrv.pc = "get" /\ httpsrv'.pc = "serve"

\* the sum of the values a rendered family reports over its label sets
RECURSIVE SumOver(_, _)
SumOver(t, ls) ==
    IF ls = {} THEN 0
    ELSE LET l == CHOOSE x \in ls : TRUE IN t[l] + SumOver(t, ls \ {l})
CounterSum(t) == SumOver(t, DOMAIN t)

\* C27: a render made after N records were accepted by the aggregator
\* reports operation_total values that sum to N over all label sets, and
\* from one render to the next the counter of every label set is still
\* reported and has not decreased.
C27_CounterTotalsAndMonotone ==
    [][RenderDone =>
          /\ CounterSum(httpsrv'.total) = ipcsrv.added
          /\ \A l \in DOMAIN httpsrv.total :
                /\ l \in DOMAIN httpsrv'.total
                /\ httpsrv'.total[l] >= httpsrv.total[l] ]_vars

\* a second render has reported counters of two label sets, one of them
\* with more than one record, that sum to the number of records accepted
C27_Witness ==
    /\ httpsrv.renders = 2
    /\ httpsrv.pc = "serve"
    /\ Cardinality(DOMAIN httpsrv.total) = 2
    /\ \E l \in DOMAIN httpsrv.total : httpsrv.total[l] > 1
    /\ CounterSum(httpsrv.total) = ipcsrv.added

HistogramRendered ==
    /\ httpsrv.pc = "get"
    /\ httpsrv.stage = "format"
    /\ httpsrv'.stage = "group"

\* the number of observations a rendered histogram family reports
CountSum(lines) == SumOver([l \in DOMAIN lines |-> lines[l].count], DOMAIN lines)

StopRan == proc[ServerPid] = "stopping" /\ httpsrv.hnd # "stop"

\* a step in which the IPC server accepts a connection
AcceptStep ==
    \E k \in DOMAIN conn : conn[k].state = "queued" /\ conn'[k].state = "accepted"

\* a step in which the daemon leaves main
ExitStep == dstep'.op = "exit" /\ proc[ServerPid] # "none"

\* C23: a serving daemon that receives the termination signal accepts no
\* IPC connection once stop() has run and has removed the socket file; the
\* signal handler's wait for the shutdown thread is bounded, so the serve
\* loop gets to see the shutdown request; the daemon leaves main with the
\* PID file, the state file and the socket file removed and the HTTP port
\* released; and a daemon that received the signal always exits.
C23_SigtermShutsDownAndExits ==
    /\ [][ /\ AcceptStep => ~StopRan
           /\ ExitStep =>
                 /\ proc[ServerPid] = "stopping"
                 /\ proc'[ServerPid] = "none"
                 /\ ~pidFile'.exists
                 /\ ~stateFile'
                 /\ ~socketFile'
                 /\ ServerPid \notin port' ]_vars
    /\ [](StopRan => ~ipcsrv.running /\ ~ipcsrv.listening /\ ~socketFile)
    /\ (proc[ServerPid] = "stopping") ~> (proc[ServerPid] = "none")

\* the daemon has left main after the signal and no control file is left
C23_Witness ==
    /\ dstep.op = "exit"
    /\ proc[ServerPid] = "none"
    /\ ~pidFile.exists /\ ~stateFile /\ ~socketFile
    /\ port = {}

\* ---- C31
\* the guards of _maybe_start_worker on unit u with services S
WorkerGuards(u, S) ==
    /\ ~is_leader(u)
    /\ ~IsServiceRunning(S, WORKER_SERVICE)
    /\ IsConfigValid
    /\ GetPeerData(bag, "leader_address", "") # ""

\* C31: _maybe_start_worker (called on the unit's services, with and without
\* a running worker) renders and starts the worker iff the unit is not the
\* leader, the worker is not running, the configuration is valid and
\* leader_address is populated (the start adds the worker service and
\* nothing else, unless systemctl fails); when a guard fails it returns with
\* the services as they were; and in every step a worker service appears
\* only on a unit that is not the leader, through a handler of that unit,
\* with the guards satisfied and the databag unchanged.
C31_WorkerStartGuards ==
    [][ /\ \A u \in Units, started \in BOOLEAN :
           \A S \in {svc[u] \ {WORKER_SERVICE}, svc[u] \cup {WORKER_SERVICE}} :
              LET r == MaybeStartWorker(u, bag, S, started) IN
              /\ WorkerGuards(u, S) <=> r.host # ""
              /\ WorkerGuards(u, S) =>
                    /\ r.host = bag["leader_address"]
                    /\ r.raised = ~started
                    /\ r.svc = IF started THEN S \cup {WORKER_SERVICE} ELSE S
              /\ ~WorkerGuards(u, S) => r.svc = S /\ ~r.raised
        /\ \A u \in Units :
              (WORKER_SERVICE \in svc'[u] /\ WORKER_SERVICE \notin svc[u])
              => /\ Handled(u)
                 /\ ~is_leader(u)
                 /\ IsConfigValid
                 /\ bag["leader_address"] # ""
                 /\ bag' = bag
                 /\ event'.worker_host = bag["leader_address"] ]_vars

\* a non-leader with a valid configuration handled config-changed and its
\* worker runs against the published leader address, while the leader runs
\* no worker
C31_Witness ==
    /\ event.op = "config-changed"
    /\ event.unit # leader
    /\ IsConfigValid
    /\ WORKER_SERVICE \in svc[event.unit]
    /\ event.worker_host = bag["leader_address"]
    /\ event.worker_host # ""
    /\ WORKER_SERVICE \notin svc[leader]

\* ---- C32
\* the events whose handler publishes the leader address
PublishOps == {"leader-elected", "config-changed", "cluster-changed"}

\* the handler of the step did not find the unit's private address empty:
\* _get_private_ip returned an address, or config-changed failed before it
\* asked for one
AddressNotEmpty ==
    \/ event'.leader_ip # ""
    \/ event'.op = "config-changed" /\ event'.status = Status("blocked", <<"Config error: ">>)

StartTestSucceeds == event'.op = "start-test" /\ event'.ok

\* C39: test_run_id and scenario_file change only in a successful
\* start-test, which sets test_state to running, test_run_id to the new run
\* id it reports and scenario_file to the scenario it launched; every other
\* step (stop-test, update-status, leader-elected, cluster-relation events,
\* config-changed, a failed start-test, test-status, fetch-metrics, start)
\* leaves both keys unchanged.
C39_RunKeysFrame ==
    [][ /\ StartTestSucceeds
           => /\ Handled(leader)
              /\ bag'["test_state"] = "running"
              /\ bag'["test_run_id"] = event'.test_run_id
              /\ bag'["test_run_id"] \notin {"", bag["test_run_id"]}
              /\ bag'["scenario_file"] \in ScenarioFiles
        /\ ~StartTestSucceeds
           => /\ bag'["test_run_id"] = bag["test_run_id"]
              /\ bag'["scenario_file"] = bag["scenario_file"] ]_vars

\* the new leader handled leader-elected after a run was started and
\* stopped, and the run id and the scenario are still published
C39_Witness ==
    /\ event.op = "leader-elected"
    /\ event.unit = 2
    /\ bag["test_run_id"] # ""
    /\ bag["scenario_file"] # ""
    /\ bag["test_state"] = "idle"

\* ---- C33
\* what the pid named by the PID file is: "daemon", "foreign", "dead", or
\* "" when there is no PID file or its text is no pid
NamedByPidFile ==
    LET pid == IntOfText(pidFile.text) IN
    IF ~pidFile.exists \/ ~pid.ok THEN ""
    ELSE IF pid.val \notin Pids \/ proc[pid.val] = "none" THEN "dead"
    ELSE IF proc[pid.val] \in DaemonPhases THEN "daemon"
    ELSE "foreign"

\* C33: cleanup_stale_files does nothing when the PID file names a live
\* daemon (the three files stay, nothing is signalled); when it names a
\* live foreign process it deletes the PID file and does not signal that
\* process; when the named pid is not alive it removes the PID, state and
\* socket files.  A direct call changes the node accordingly.
C33_CleanupByOwner ==
    /\ [](\A lsof_works \in BOOLEAN :
            LET c == CleanupStaleFiles(pidFile, stateFile, socketFile, proc, port, lsof_works)
                pid == IntOfText(pidFile.text).val
            IN /\ NamedByPidFile = "daemon"
                  => /\ c.pidFile = pidFile
                     /\ c.stateFile = stateFile
                     /\ c.socketFile = socketFile
                     /\ c.sent = {}
               /\ NamedByPidFile = "foreign"
                  => /\ ~c.pidFile.exists
                     /\ pid \notin c.sent
               /\ NamedByPidFile = "dead"
                  => /\ ~c.pidFile.exists
                     /\ ~c.stateFile
                     /\ ~c.socketFile)
    /\ [][ dstep'.op = "cleanup"
           => LET pid == IntOfText(pidFile.text).val IN
              /\ NamedByPidFile = "daemon"
                 => /\ UNCHANGED <<proc, port, pidFile, stateFile, socketFile>>
                    /\ dstep'.sent = {}
              /\ NamedByPidFile = "foreign"
                 => /\ ~pidFile'.exists
                    /\ proc'[pid] = proc[pid]
                    /\ pid \notin dstep'.sent
              /\ NamedByPidFile = "dead"
                 => ~pidFile'.exists /\ ~stateFile' /\ ~socketFile' ]_vars

\* cleanup_stale_files ran while the PID file named a serving daemon: the
\* daemon serves on, the three files are in place, nothing was signalled
C33_Witness ==
    /\ dstep.op = "cleanup"
    /\ dstep.sent = {}
    /\ NamedByPidFile = "daemon"
    /\ proc[IntOfText(pidFile.text).val] = "serving"
    /\ stateFile
    /\ socketFile

\* ---- C40
\* C40: while a daemon is serving and the PID file it wrote names it, no
\* step of another daemon process (one that is starting up, fails to bind
\* or exits) overwrites or removes the PID file or removes the state file
\* or the socket file.
C40_FailedStartKeepsLiveFiles ==
    [][ \A q \in Pids, p \in Pids :
           ( /\ p # q
             /\ proc[q] = "serving"
             /\ pidFile = PidFileOf(StrOfPid(q), q)
             /\ proc[p] \in DaemonPhases
             /\ proc'[p] # proc[p]
             /\ dstep'.actor # "supervisor" )
           => /\ pidFile' = pidFile
              /\ stateFile' = stateFile
              /\ socketFile' = socketFile ]_vars

\* ---- C36
\* C36: while the daemon is serving, a connection whose worker still holds
\* its end is not closed by the server.
C36_ServerReadsUntilEof ==
    [][ \A k \in DOMAIN conn :
           ( /\ proc[ServerPid] = "serving"
             /\ proc'[ServerPid] = "serving"
             /\ \E c \in Clients : client.sock[c] = k
             /\ conn[k].state # "closed" )
           => conn'[k].state # "closed" ]_vars

\* ---- C38
\* the number of entries of the sequence s that are at most bound
RECURSIVE AtMost(_, _)
AtMost(s, bound) ==
    IF s = <<>> THEN 0
    ELSE (IF Head(s) <= bound THEN 1 ELSE 0) + AtMost(Tail(s), bound)

\* the records the IPC server has taken in whose label set is label_str
ReceivedFor(label_str) ==
    {m \in ipcsrv.received : FormatLabels(LabelsOf(m)) = label_str}

\* C38: when _format_histogram writes a family, the bucket lines of every
\* label set follow the bucket list, whose bounds ascend; each bucket line
\* counts the observations of the label set that are at most its bound, so
\* the counts never decrease and none exceeds the +Inf line; the +Inf line
\* equals _count, the number of observations grouped under the label set:
\* one for every record taken
\* in for the label set, but for a record add_operation_metric has not yet
\* appended to the family.
C38_HistogramLines ==
    /\ [][HistogramRendered =>
             LET f == httpsrv.fam
                 buckets == IF f = 1 THEN DurationBuckets ELSE SizeBuckets
                 lines == httpsrv'.out[f]
             IN /\ \A b \in DOMAIN buckets : b > 1 => buckets[b - 1] < buckets[b]
                /\ DOMAIN lines = DOMAIN httpsrv.by_labels
                /\ \A label_str \in DOMAIN lines :
                      LET ln == lines[label_str]
                          vals == httpsrv.by_labels[label_str]
                      IN /\ DOMAIN ln.bucket = DOMAIN buckets
                         /\ \A b \in DOMAIN buckets :
                               /\ ln.bucket[b] = AtMost(vals, buckets[b])
                               /\ b > 1 => ln.bucket[b - 1] <= ln.bucket[b]
                               /\ ln.bucket[b] <= ln.inf
                         /\ ln.inf = ln.count
                         /\ ln.count = Len(vals)
                         /\ ln.count >= 1
                         /\ ln.count <= Cardinality(ReceivedFor(label_str))
                         /\ ln.count <= Len(ValuesOf(metrics[Families[f]], label_str)) ]_vars
    /\ [][(httpsrv.stage = "group" /\ httpsrv'.stage = "format") =>
              LET f == httpsrv.fam IN
              \A label_str \in DOMAIN httpsrv'.by_labels :
                 Len(httpsrv'.by_labels[label_str]) =
                    Cardinality(ReceivedFor(label_str))
                    - (IF /\ ipcsrv.pc = "add"
                          /\ FormatLabels(LabelsOf(ipcsrv.metric)) = label_str
                          /\ ipcsrv.i <= f
                       THEN 1 ELSE 0) ]_vars

\* the duration histogram was rendered for a label set with two
\* observations, one within the first bound and one beyond it
C38_Witness ==
    /\ httpsrv.pc = "get"
    /\ httpsrv.fam = 2
    /\ \E label_str \in DOMAIN httpsrv.out[1] :
          /\ httpsrv.out[1][label_str].count = 2
          /\ httpsrv.out[1][label_str].bucket[1] = 1
          /\ httpsrv.out[1][label_str].bucket[4] = 2
          /\ httpsrv.out[1][label_str].inf = 2

\* ---- C35
\* a turn of the inner loop of _handle_client
LineStep == hc.pc = "lines" /\ hc'.buffer # hc.buffer

\* the stripped text of the line that turn splits off
NextLine == Strip(SplitLine(hc.buffer).line)

\* a step in which the handler closes the connection
CloseStep == hc.pc # "closed" /\ hc'.pc = "closed"

\* the bytes a recv step returns
Received == SubSeq(hc.written, hc.rpos + 1, hc'.rpos)

RECURSIVE RecordsOf(_)
RecordsOf(bytes) ==
    IF ~\E i \in DOMAIN bytes : bytes[i] = "\n" THEN <<>>
    ELSE LET s == SplitLine(bytes)
             d == DecodeUtf8(s.line)
             metric == IF d.ok THEN ProcessMetric(Strip(d.text)) ELSE ""
         IN (IF metric = "" THEN <<>> ELSE <<metric>>) \o RecordsOf(s.rest)

\* s is a prefix of t
IsPrefix(s, t) == Len(s) <= Len(t) /\ s = SubSeq(t, 1, Len(s))

\* C37: on a connection whose bytes are UTF-8 text, the records ingested
\* are at every moment a prefix of the records of the complete lines
\* written, and once the handler has read the connection to its end (it was
\* not idle for a second) they are exactly those records, each once and in
\* order, however recv split the bytes; what follows the last newline is
\* not ingested.
C37_LinesOnceInOrder ==
    DecodeUtf8(hc.written).ok
    => /\ IsPrefix(hc.ingested, RecordsOf(hc.written))
       /\ (hc.pc = "closed" /\ hc.how # "timeout")
          => hc.ingested = RecordsOf(hc.written)

\* ---- C34
\* C34: once the signal handler has started, be it during the startup or
\* while the daemon serves, the IPC loop and the serve loop end and the
\* daemon process exits.
C34_SignalLeadsToExit ==
    (httpsrv.hnd = "stop")
    ~> (proc[ServerPid] = "none" /\ ipcsrv.pc = "exited" /\ httpsrv.pc = "exited")

====
